---- MODULE Spec2Model ----
(***************************************************************************)
(* A model of the logkv-store storage engine (package store): the record   *)
(* codec, Segment, SegmentManager, HashTable (the keydir) and Store, with  *)
(* the background compaction (Store.Merge) running beside foreground       *)
(* Set/Delete/Get calls.                                                   *)
(*                                                                         *)
(* Files are byte sequences held by inode; a directory maps a segment id   *)
(* (the <id> of segment_<id>.log) to an inode, so that a rename over an    *)
(* existing name, an unlink of an open file and the file offset shared by  *)
(* the readers of one os.File behave as they do on a POSIX file system.    *)
(***************************************************************************)
EXTENDS Integers, Sequences, FiniteSets, TLC

VARIABLES
    fs,         \* inode -> file content, a sequence of bytes
    foff,       \* inode -> file offset of the open os.File (shared by its readers)
    segs,       \* inode -> the Segment object holding that file open
    baseDir,    \* segment id -> inode: the segment_<id>.log files of basePath
    tmpDir,     \* segment id -> inode: the files of basePath/merge_tmp
    sm,         \* Store.segmentManager: [segments, activeID, nextID]
    ht,         \* Store.hashTable.index: key -> *HashTableEntry
    isMerging,  \* Store.isMerging
    mg,         \* merger -> the locals of its Store.Merge call
    cl,         \* client -> its call in flight (a Get inside Segment.Read) and last result
    clock,      \* the last value time.Now().Unix() returned (the store starts at second 1)
    expect,     \* key -> what the Set/Delete schedule alone leaves in the key
    hist,       \* counters of what has happened
    unit        \* the last direct call of the codec, a Segment or a SegmentManager

vars == <<fs, foff, segs, baseDir, tmpDir, sm, ht, isMerging, mg, cl, clock, expect, hist,
          unit>>

(***************************************************************************)
(* Bounds of the model.                                                    *)
(***************************************************************************)
MaxOps == 3
MaxMerges == 2
MaxRestarts == 1
MaxTime == 1
MaxGets == 1
MaxCalls == 3
MaxLen == 2
MaxSegmentID == 4
MaxTableCalls == 5
\* Segment.maxSize and Segment.maxEntries, scaled down from
\* DefaultMaxSegmentSize and DefaultMaxEntriesPerSegment.
MaxSegmentSize == 14
MaxEntriesPerSegment == 2

Keys == {<<1>>, <<2>>}
Values == {<<>>, <<1>>, <<2>>}
Clients == {1, 2}
Mergers == {1, 2}

HeaderSize == 12

(***************************************************************************)
(* Small helpers.                                                          *)
(***************************************************************************)
EmptyMap == <<>>

Restrict(f, S) == [x \in S \cap DOMAIN f |-> f[x]]

Without(f, x) == [y \in DOMAIN f \ {x} |-> f[y]]

With(f, x, v) == [y \in DOMAIN f \cup {x} |-> IF y = x THEN v ELSE f[y]]

Merged(f, g) == [y \in DOMAIN f \cup DOMAIN g |-> IF y \in DOMAIN g THEN g[y] ELSE f[y]]

MaxOf(S) == CHOOSE x \in S : \A y \in S : y <= x

MinOf(S) == CHOOSE x \in S : \A y \in S : x <= y

RECURSIVE SortedSeq(_)
SortedSeq(S) == IF S = {} THEN <<>> ELSE <<MinOf(S)>> \o SortedSeq(S \ {MinOf(S)})

(***************************************************************************)
(* The record codec: Entry, Serialize, DeserializeEntry.                   *)
(***************************************************************************)
NoEntry == [Timestamp |-> 0, KeySize |-> 0, ValueSize |-> 0, Key |-> <<>>, Value |-> <<>>]

\* a faulty PutUint32 that writes the most significant byte first
BE32(n) == << (n \div 16777216) % 256, (n \div 65536) % 256, (n \div 256) % 256, n % 256 >>

LE32(n) == << n % 256, (n \div 256) % 256, (n \div 65536) % 256, (n \div 16777216) % 256 >>

U32(b, i) == b[i] + 256 * b[i + 1] + 65536 * b[i + 2] + 16777216 * b[i + 3]

\* copy(buf[start-1:], src): as many bytes as fit
CopyInto(buf, start, src) ==
    [i \in 1..Len(buf) |->
        IF i >= start /\ i - start + 1 <= Len(src) THEN src[i - start + 1] ELSE buf[i]]

IsTombstone(e) == e.ValueSize = 0

EntrySize(e) == HeaderSize + e.KeySize + e.ValueSize

Serialize(e) ==
    LET zero == [i \in 1..EntrySize(e) |-> 0]
        b1 == CopyInto(zero, 1, LE32(e.Timestamp))
        b2 == CopyInto(b1, 5, LE32(e.KeySize))
        b3 == CopyInto(b2, 9, LE32(e.ValueSize))
        b4 == CopyInto(b3, 13, e.Key)
    IN  IF e.ValueSize > 0 THEN CopyInto(b4, 13 + e.KeySize, e.Value) ELSE b4

\* a faulty decoder that does not compare the header's sizes with the buffer
DeserializeEntryLenient(data) ==
    IF Len(data) < HeaderSize THEN [err |-> "ErrInvalidEntry", entry |-> NoEntry]
    ELSE [err |-> "nil",
          entry |-> [Timestamp |-> U32(data, 1), KeySize |-> U32(data, 5),
                     ValueSize |-> U32(data, 9), Key |-> <<>>, Value |-> <<>>]]

DeserializeEntry(data) ==
    IF Len(data) < HeaderSize THEN [err |-> "ErrInvalidEntry", entry |-> NoEntry]
    ELSE LET ts == U32(data, 1)
             ks == U32(data, 5)
             vs == U32(data, 9)
         IN  IF ks + vs # Len(data) - HeaderSize
             THEN [err |-> "ErrInvalidEntry", entry |-> NoEntry]
             ELSE [err |-> "nil",
                   entry |-> [Timestamp |-> ts, KeySize |-> ks, ValueSize |-> vs,
                              Key |-> SubSeq(data, 13, 12 + ks),
                              Value |-> IF vs > 0 THEN SubSeq(data, 13 + ks, 12 + ks + vs)
                                        ELSE <<>>]]

\* Store.Set's entry literal, and the tombstone literal of Store.Delete
SetEntry(key, value, now) ==
    [Timestamp |-> now, KeySize |-> Len(key), ValueSize |-> Len(value),
     Key |-> key, Value |-> value]

TombstoneOf(key, now) ==
    [Timestamp |-> now, KeySize |-> Len(key), ValueSize |-> 0, Key |-> key, Value |-> <<>>]

(***************************************************************************)
(* os.File: io.ReadFull at the file offset.                                *)
(***************************************************************************)
\* io.ReadFull(file, buf) with len(buf) = n, the file offset being off
ReadFull(bytes, off, n) ==
    IF n = 0 THEN [ok |-> TRUE, data |-> <<>>, off |-> off]
    ELSE IF Len(bytes) - off >= n
         THEN [ok |-> TRUE, data |-> SubSeq(bytes, off + 1, off + n), off |-> off + n]
         ELSE [ok |-> FALSE, data |-> <<>>,
               off |-> IF off < Len(bytes) THEN Len(bytes) ELSE off]

(***************************************************************************)
(* Segment.  A Segment object is [id, dir, size, entryCount, isActive,     *)
(* isClosed]; dir is the directory of its path.  The object that holds     *)
(* inode i open is segs[i].                                                *)
(***************************************************************************)
\* a faulty capacity check that never finds the segment full
SegmentNeverFull(seg) == FALSE

SegmentFull(seg) == seg.size >= MaxSegmentSize \/ seg.entryCount >= MaxEntriesPerSegment

\* a faulty Append that returns the size after the write as the offset
SegmentAppendOffsetAfter(f, sg, ino, entry) ==
    IF sg[ino].isClosed \/ ~sg[ino].isActive
    THEN [err |-> "ErrSegmentClosed", offset |-> 0, fs |-> f, segs |-> sg]
    ELSE IF SegmentFull(sg[ino])
    THEN [err |-> "ErrSegmentFull", offset |-> 0, fs |-> f,
          segs |-> [sg EXCEPT ![ino].isActive = FALSE]]
    ELSE [err |-> "nil", offset |-> sg[ino].size + EntrySize(entry),
          fs |-> [f EXCEPT ![ino] = @ \o Serialize(entry)],
          segs |-> [sg EXCEPT ![ino].size = @ + EntrySize(entry), ![ino].entryCount = @ + 1]]

\* a faulty Append that looks neither at isClosed nor at isActive
SegmentAppendAnyState(f, sg, ino, entry) ==
    IF SegmentFull(sg[ino])
    THEN [err |-> "ErrSegmentFull", offset |-> 0, fs |-> f,
          segs |-> [sg EXCEPT ![ino].isActive = FALSE]]
    ELSE [err |-> "nil", offset |-> sg[ino].size,
          fs |-> [f EXCEPT ![ino] = @ \o Serialize(entry)],
          segs |-> [sg EXCEPT ![ino].size = @ + EntrySize(entry), ![ino].entryCount = @ + 1]]

\* Segment.Append on the segment holding inode ino; f and sg are the file
\* contents and the Segment objects before the call.
SegmentAppend(f, sg, ino, entry) ==
    LET seg == sg[ino]
        \* n, err := s.file.Write(data); s.size += int64(n); s.entryCount++
        Write(data) ==
            [err |-> "nil", offset |-> seg.size,
             fs |-> [f EXCEPT ![ino] = @ \o data],
             segs |-> [sg EXCEPT ![ino].size = @ + Len(data),
                                 ![ino].entryCount = @ + 1]]
    IN  IF seg.isClosed THEN [err |-> "ErrSegmentClosed", offset |-> 0, fs |-> f, segs |-> sg]
        ELSE IF ~seg.isActive
             THEN [err |-> "ErrSegmentClosed", offset |-> 0, fs |-> f, segs |-> sg]
        ELSE IF SegmentFull(seg)
             THEN [err |-> "ErrSegmentFull", offset |-> 0, fs |-> f,
                   segs |-> [sg EXCEPT ![ino].isActive = FALSE]]
        ELSE Write(Serialize(entry))

\* Segment.Read when no other reader moves the file offset in between
SegmentRead(f, sg, ino, pos) ==
    LET seg == sg[ino]
        Body(h, b) ==
            IF ~b.ok THEN [err |-> "failed to read entry data", entry |-> NoEntry]
            ELSE DeserializeEntry(h.data \o b.data)
        Header(h) ==
            IF ~h.ok THEN [err |-> "failed to read entry header", entry |-> NoEntry]
            ELSE Body(h, ReadFull(f[ino], h.off, U32(h.data, 5) + U32(h.data, 9)))
    IN  IF pos >= seg.size THEN [err |-> "beyond segment size", entry |-> NoEntry]
        ELSE IF seg.isClosed THEN [err |-> "failed to seek", entry |-> NoEntry]
        ELSE Header(ReadFull(f[ino], pos, HeaderSize))

\* Segment.Close
SegmentClose(seg) ==
    IF seg.isClosed THEN seg ELSE [seg EXCEPT !.isActive = FALSE, !.isClosed = TRUE]

\* Segment.IsActive
SegmentIsActive(seg) == seg.isActive /\ ~seg.isClosed

\* NewSegment(id, dir): O_CREATE|O_RDWR|O_APPEND on dir/segment_<id>.log
NewSegmentObj(id, dir, size) ==
    [id |-> id, dir |-> dir, size |-> size, entryCount |-> 0,
     isActive |-> TRUE, isClosed |-> FALSE]

\* OpenSegment(id, dir): O_RDONLY on an existing file
OpenSegmentObj(id, dir, size) ==
    [id |-> id, dir |-> dir, size |-> size, entryCount |-> 0,
     isActive |-> FALSE, isClosed |-> FALSE]

(***************************************************************************)
(* SegmentManager.  A manager is [path, segments, activeID, nextID] with   *)
(* segments: id -> inode of the Segment object.  A world w is the file     *)
(* system and the Segment objects: [fs, segs, base, tmp].                  *)
(***************************************************************************)
\* the inode a newly created file gets
FreshIno(w) == MinOf({n \in 1..(Cardinality(DOMAIN w.fs) + 1) : n \notin DOMAIN w.fs})

DirOf(w, path) == IF path = "base" THEN w.base ELSE w.tmp

SetDir(w, path, d) == IF path = "base" THEN [w EXCEPT !.base = d] ELSE [w EXCEPT !.tmp = d]

\* SegmentManager.createActiveSegment
createActiveSegment(w, m) ==
    LET d == DirOf(w, m.path)
        exists == m.nextID \in DOMAIN d
        ino == IF exists THEN d[m.nextID] ELSE FreshIno(w)
        f2 == IF exists THEN w.fs ELSE With(w.fs, ino, <<>>)
        w2 == [SetDir(w, m.path, With(d, m.nextID, ino)) EXCEPT
                 !.fs = f2,
                 !.segs = With(w.segs, ino, NewSegmentObj(m.nextID, m.path, Len(f2[ino])))]
    IN  [w |-> w2,
         m |-> [m EXCEPT !.segments = With(m.segments, m.nextID, ino),
                         !.activeID = m.nextID,
                         !.nextID = m.nextID + 1]]

\* a faulty Append that hands the segment's error back and never rotates
SMAppendNoRotation(w, m, entry) ==
    IF m.activeID = 0 \/ m.activeID \notin DOMAIN m.segments
    THEN [err |-> "no active segment", id |-> 0, offset |-> 0, w |-> w, m |-> m]
    ELSE LET Appended(a) ==
                 [err |-> a.err, id |-> IF a.err = "nil" THEN m.activeID ELSE 0,
                  offset |-> a.offset, w |-> [w EXCEPT !.fs = a.fs, !.segs = a.segs], m |-> m]
         IN  Appended(SegmentAppend(w.fs, w.segs, m.segments[m.activeID], entry))

\* SegmentManager.Append
SMAppend(w, m, entry) ==
    IF m.activeID = 0
    THEN [err |-> "no active segment", id |-> 0, offset |-> 0, w |-> w, m |-> m]
    ELSE IF m.activeID \notin DOMAIN m.segments
    THEN [err |-> "active segment not found", id |-> 0, offset |-> 0, w |-> w, m |-> m]
    ELSE LET \* the result of Append on the segment holding inode ino of manager m1
             Appended(w1, m1, ino, a) ==
                 IF a.err = "nil"
                 THEN [err |-> "nil", id |-> a.segs[ino].id, offset |-> a.offset,
                       w |-> [w1 EXCEPT !.fs = a.fs, !.segs = a.segs], m |-> m1]
                 ELSE [err |-> a.err, id |-> 0, offset |-> 0,
                       w |-> [w1 EXCEPT !.fs = a.fs, !.segs = a.segs], m |-> m1]
             \* Try again with new segment
             Retry(c, ino2) ==
                 Appended(c.w, c.m, ino2, SegmentAppend(c.w.fs, c.w.segs, ino2, entry))
             Rotate(c) == Retry(c, c.m.segments[c.m.activeID])
             First(a1) ==
                 IF a1.err = "ErrSegmentFull"
                 THEN Rotate(createActiveSegment([w EXCEPT !.fs = a1.fs, !.segs = a1.segs], m))
                 ELSE Appended(w, m, m.segments[m.activeID], a1)
         IN  First(SegmentAppend(w.fs, w.segs, m.segments[m.activeID], entry))

\* a faulty Read that answers for a segment the manager does not hold
SMReadAnySegment(w, m, segmentID, pos) ==
    IF segmentID \notin DOMAIN m.segments THEN [err |-> "nil", entry |-> NoEntry]
    ELSE SegmentRead(w.fs, w.segs, m.segments[segmentID], pos)

\* SegmentManager.Read when no other reader moves the file offset in between
SMRead(w, m, segmentID, pos) ==
    IF segmentID \notin DOMAIN m.segments
    THEN [err |-> "segment not found", entry |-> NoEntry]
    ELSE SegmentRead(w.fs, w.segs, m.segments[segmentID], pos)

\* SegmentManager.GetSegmentIDs
GetSegmentIDs(m) == SortedSeq(DOMAIN m.segments)

\* a faulty target list that holds every segment of the manager, the
\* active one too
GetAllSegmentIDs(sg, m) == SortedSeq(DOMAIN m.segments)

\* SegmentManager.GetInactiveSegmentIDs
GetInactiveSegmentIDs(sg, m) ==
    SortedSeq({id \in DOMAIN m.segments : ~sg[m.segments[id]].isActive})

\* a faulty Close that closes the segments and forgets them but leaves
\* activeID as it was
SMCloseKeepsActive(w, m) ==
    [w |-> [w EXCEPT !.segs = [i \in DOMAIN w.segs |->
                         IF \E id \in DOMAIN m.segments : m.segments[id] = i
                         THEN SegmentClose(w.segs[i]) ELSE w.segs[i]]],
     m |-> [m EXCEPT !.segments = EmptyMap]]

\* SegmentManager.Close
SMClose(w, m) ==
    [w |-> [w EXCEPT !.segs = [i \in DOMAIN w.segs |->
                         IF \E id \in DOMAIN m.segments : m.segments[id] = i
                         THEN SegmentClose(w.segs[i]) ELSE w.segs[i]]],
     m |-> [m EXCEPT !.segments = EmptyMap, !.activeID = 0]]

\* Segment.Delete: Close, then unlink the file at the segment's path
SegmentDelete(w, ino) ==
    LET seg == w.segs[ino]
        d == DirOf(w, seg.dir)
        w1 == [w EXCEPT !.segs[ino] = SegmentClose(seg)]
    IN  IF seg.id \in DOMAIN d
        THEN [err |-> "nil", w |-> SetDir(w1, seg.dir, Without(d, seg.id))]
        ELSE [err |-> "remove: no such file", w |-> w1]

\* SegmentManager.DeleteSegment
DeleteSegment(w, m, id) ==
    IF id \notin DOMAIN m.segments THEN [err |-> "nil", w |-> w, m |-> m]
    ELSE LET Deleted(r) ==
                 [err |-> r.err, w |-> r.w, m |-> [m EXCEPT !.segments = Without(@, id)]]
         IN  Deleted(SegmentDelete(w, m.segments[id]))

\* SegmentManager.Merge
SMMerge(m, src) == [m EXCEPT !.segments = Merged(@, src.segments)]

\* a faulty loadSegments that takes the segment with the highest id as active
loadSegmentsReopensLast(w, path) ==
    LET d == DirOf(w, path)
        opened == [i \in {d[id] : id \in DOMAIN d} |->
                     LET id == CHOOSE x \in DOMAIN d : d[x] = i
                     IN  OpenSegmentObj(id, path, Len(w.fs[i]))]
    IN  [w |-> [w EXCEPT !.segs = Merged(@, opened)],
         m |-> [path |-> path, segments |-> d,
                activeID |-> IF DOMAIN d = {} THEN 0 ELSE MaxOf(DOMAIN d),
                nextID |-> IF DOMAIN d = {} THEN 1 ELSE MaxOf(DOMAIN d) + 1]]

\* SegmentManager.loadSegments
loadSegments(w, path) ==
    LET d == DirOf(w, path)
        opened == [i \in {d[id] : id \in DOMAIN d} |->
                     LET id == CHOOSE x \in DOMAIN d : d[x] = i
                     IN  OpenSegmentObj(id, path, Len(w.fs[i]))]
        act == {id \in DOMAIN d : SegmentIsActive(opened[d[id]])}
    IN  [w |-> [w EXCEPT !.segs = Merged(@, opened)],
         m |-> [path |-> path, segments |-> d,
                activeID |-> IF act = {} THEN 0 ELSE MaxOf(act),
                nextID |-> IF DOMAIN d = {} THEN 1 ELSE MaxOf(DOMAIN d \cup {0}) + 1]]

\* NewSegmentManager
NewSegmentManager(w, path) ==
    LET Loaded(l) == IF l.m.activeID = 0 THEN createActiveSegment(l.w, l.m) ELSE l
    IN  Loaded(loadSegments(w, path))

(***************************************************************************)
(* HashTable.  An entry is [FileID, ValueSize, ValuePos, Timestamp, ptr];  *)
(* ptr is the address of the HashTableEntry, which Put allocates afresh.   *)
(***************************************************************************)
\* a faulty Put that keeps the entry a key already has
HTPutIfAbsent(index, key, fileID, valuePos, valueSize, timestamp, ptr) ==
    IF key \in DOMAIN index THEN index
    ELSE [k \in DOMAIN index \cup {key} |->
            IF k = key
            THEN [FileID |-> fileID, ValueSize |-> valueSize, ValuePos |-> valuePos,
                  Timestamp |-> timestamp, ptr |-> ptr]
            ELSE index[k]]

HTPut(index, key, fileID, valuePos, valueSize, timestamp, ptr) ==
    With(index, key, [FileID |-> fileID, ValueSize |-> valueSize, ValuePos |-> valuePos,
                      Timestamp |-> timestamp, ptr |-> ptr])

\* a faulty Delete that leaves the key in the index
HTDeleteNothing(index, key) == index

HTDelete(index, key) == Without(index, key)

HTList(index) == DOMAIN index

HTClone(index) == index

\* a faulty Merge that installs every merged entry, changed since snap or not
HTMergeUnchecked(h, src, snap) ==
    [k \in DOMAIN h |-> IF k \in DOMAIN src /\ k \in DOMAIN snap THEN src[k] ELSE h[k]]

\* a faulty Merge that also installs the merged entries of keys the live
\* index no longer holds
HTMergeAdds(h, src, snap) ==
    [k \in DOMAIN h \cup (DOMAIN src \cap DOMAIN snap) |->
        IF k \in DOMAIN src /\ k \in DOMAIN snap /\ (k \in DOMAIN h => h[k].ptr = snap[k].ptr)
        THEN src[k] ELSE h[k]]

\* HashTable.Merge(src, snap) on the live index h
HTMerge(h, src, snap) ==
    [k \in DOMAIN h |->
        IF k \in DOMAIN src /\ k \in DOMAIN snap /\ h[k].ptr = snap[k].ptr
        THEN src[k] ELSE h[k]]

(***************************************************************************)
(* Store: startup replay and Get.                                          *)
(***************************************************************************)
PtrsOf(index) == {index[k].ptr : k \in DOMAIN index}

\* a faulty allocation that hands out an address an entry still lives at
FreshPtrReused(used) == 1

\* the address a newly allocated HashTableEntry gets: one no live pointer holds
FreshPtr(used) == MinOf({n \in 1..(Cardinality(used) + 1) : n \notin used})

World == [fs |-> fs, segs |-> segs, base |-> baseDir, tmp |-> tmpDir]

\* a faulty loadSegmentIntoKeyDir that stops at a record it cannot read and
\* reports no error
RECURSIVE loadSegmentIntoKeyDirLenient(_, _, _, _)
loadSegmentIntoKeyDirLenient(w, ino, pos, index) ==
    IF pos >= w.segs[ino].size THEN [err |-> "nil", index |-> index]
    ELSE LET Loaded(r) ==
                 IF r.err # "nil" THEN [err |-> "nil", index |-> index]
                 ELSE loadSegmentIntoKeyDirLenient(w, ino, pos + EntrySize(r.entry),
                        IF ~IsTombstone(r.entry)
                        THEN HTPut(index, r.entry.Key, w.segs[ino].id, pos, r.entry.ValueSize,
                                   r.entry.Timestamp, FreshPtr(PtrsOf(index)))
                        ELSE HTDelete(index, r.entry.Key))
         IN  Loaded(SegmentRead(w.fs, w.segs, ino, pos))

\* Store.loadSegmentIntoKeyDir, from position pos on
RECURSIVE loadSegmentIntoKeyDir(_, _, _, _)
loadSegmentIntoKeyDir(w, ino, pos, index) ==
    IF pos >= w.segs[ino].size THEN [err |-> "nil", index |-> index]
    ELSE LET Loaded(r) ==
                 IF r.err # "nil" THEN [err |-> r.err, index |-> index]
                 ELSE loadSegmentIntoKeyDir(w, ino, pos + EntrySize(r.entry),
                        IF ~IsTombstone(r.entry)
                        THEN HTPut(index, r.entry.Key, w.segs[ino].id, pos, r.entry.ValueSize,
                                   r.entry.Timestamp, FreshPtr(PtrsOf(index)))
                        ELSE HTDelete(index, r.entry.Key))
         IN  Loaded(SegmentRead(w.fs, w.segs, ino, pos))

\* Store.loadFromSegments, over the list ids of segment ids still to load
RECURSIVE loadFromSegments(_, _, _, _)
loadFromSegments(w, m, ids, index) ==
    IF ids = <<>> THEN [err |-> "nil", index |-> index]
    ELSE LET Loaded(r) ==
                 IF r.err # "nil" THEN r ELSE loadFromSegments(w, m, Tail(ids), r.index)
         IN  Loaded(loadSegmentIntoKeyDir(w, m.segments[Head(ids)], 0, index))

\* Store.Get when no other reader moves the file offset in between
StoreGet(key) ==
    IF key \notin DOMAIN ht THEN [err |-> "ErrKeyNotFound", val |-> <<>>]
    ELSE LET Read(r) ==
                 IF r.err # "nil" THEN [err |-> "failed to read entry", val |-> <<>>]
                 ELSE [err |-> "nil", val |-> r.entry.Value]
         IN  Read(SMRead(World, sm, ht[key].FileID, ht[key].ValuePos))

\* Store.List
StoreList == HTList(ht)

\* HashTable.Stats: the number of keys and the sum of their ValueSize
RECURSIVE SumValueSize(_, _)
SumValueSize(index, ks) ==
    IF ks = {} THEN 0
    ELSE LET k == CHOOSE x \in ks : TRUE
         IN index[k].ValueSize + SumValueSize(index, ks \ {k})

HTStats(index) ==
    [totalKeys |-> Cardinality(DOMAIN index), totalSize |-> SumValueSize(index, DOMAIN index)]

(***************************************************************************)
(* The processes: clients calling the Store, and callers of Store.Merge    *)
(* (the ticker goroutine New starts is merger 1).                          *)
(***************************************************************************)
NoRet == [op |-> "none", key |-> <<>>, err |-> "nil", val |-> <<>>, keys |-> {}]

IdleClient == [pc |-> "idle", key |-> <<>>, ino |-> 0, hdr |-> <<>>, ret |-> NoRet]

NoSM == [path |-> "tmp", segments |-> EmptyMap, activeID |-> 0, nextID |-> 1]

\* a nil *SegmentManager: none has been constructed
NilSM == [path |-> "nil", segments |-> EmptyMap, activeID |-> 0, nextID |-> 0]

\* Store.Stats
StoreStats ==
    [TotalKeys |-> HTStats(ht).totalKeys, TotalSize |-> HTStats(ht).totalSize,
     Segments |-> IF sm = NilSM THEN 0 ELSE Len(GetSegmentIDs(sm))]

IdleMerger ==
    [pc |-> "idle", ids |-> <<>>, idx |-> 0, cur |-> 0, pos |-> 0, size |-> 0, hdr |-> <<>>,
     msm |-> NoSM, mht |-> EmptyMap, snap |-> EmptyMap, ret |-> "none", dirty |-> {},
     alone |-> TRUE, act0 |-> 0]

NotFound == [found |-> FALSE, val |-> <<>>, deleted |-> FALSE]

\* A Set or Delete of key has committed: every Merge call that holds a keydir
\* snapshot notes the key as written since (dirty records it for the properties),
\* and every Merge call in progress notes that it did not run alone
Dirtied(mgv, key) ==
    [i \in Mergers |->
        IF mgv[i].pc \in {"seg", "seek", "hdr", "body", "commit"}
        THEN [mgv[i] EXCEPT !.dirty = @ \cup {key}, !.alone = FALSE]
        ELSE IF mgv[i].pc # "idle" THEN [mgv[i] EXCEPT !.alone = FALSE]
        ELSE mgv[i]]

RangeOf(f) == {f[x] : x \in DOMAIN f}

\* the inodes some Segment.Read is inside of (it holds the segment's read lock)
ReadersOf(mgv, clv) ==
    {clv[c].ino : c \in {c \in Clients : clv[c].pc \in {"hdr", "body"}}}
    \cup {mgv[i].cur : i \in {i \in Mergers : mgv[i].pc \in {"hdr", "body"}}}

\* the inodes of the Segment objects some manager or reader still refers to
HeldInodes(m, mgv, clv) ==
    RangeOf(m.segments)
    \cup UNION {RangeOf(mgv[i].msm.segments) : i \in Mergers}
    \cup (({mgv[i].cur : i \in Mergers} \cup {clv[c].ino : c \in Clients}) \ {0})

UsedPtrs(index, mgv) ==
    PtrsOf(index) \cup UNION {PtrsOf(mgv[i].snap) \cup PtrsOf(mgv[i].mht) : i \in Mergers}

\* the next state of the file system, the Segment objects and the processes
Install(w, m, mgv, clv, off) ==
    LET held == HeldInodes(m, mgv, clv)
    IN  /\ fs' = Restrict(w.fs, held \cup RangeOf(w.base) \cup RangeOf(w.tmp))
        /\ segs' = Restrict(w.segs, held)
        /\ baseDir' = w.base
        /\ tmpDir' = w.tmp
        /\ sm' = m
        /\ mg' = mgv
        /\ cl' = clv
        /\ foff' = Restrict(off, ReadersOf(mgv, clv))

\* no direct call of the codec, a Segment or a SegmentManager has been made
NoCall ==
    [op |-> "none", n |-> 0, entry |-> NoEntry, data |-> <<>>, id |-> 0, pos |-> 0,
     err |-> "nil", out |-> NoEntry, offset |-> 0]

\* New on an empty directory
InitStore ==
    LET n == NewSegmentManager([fs |-> EmptyMap, segs |-> EmptyMap, base |-> EmptyMap,
                                tmp |-> EmptyMap], "base")
    IN  /\ fs = n.w.fs
        /\ segs = n.w.segs
        /\ baseDir = n.w.base
        /\ tmpDir = n.w.tmp
        /\ foff = EmptyMap
        /\ sm = n.m
        /\ ht = EmptyMap
        /\ isMerging = FALSE
        /\ mg = [i \in Mergers |-> IdleMerger]
        /\ cl = [c \in Clients |-> IdleClient]
        /\ clock = 1
        /\ expect = [k \in Keys |-> NotFound]
        /\ hist = [ops |-> 0, merges |-> 0, restarts |-> 0, gets |-> 0, commits |-> 0,
                   overtaken |-> FALSE, closed |-> FALSE, quiet |-> FALSE, up |-> TRUE]

Init == InitStore /\ unit = NoCall

\* the store's write lock can be taken: no Get holds its read lock
StoreLockFree == \A c \in Clients : cl[c].pc = "idle"

Times == {t \in {clock, clock + 1} : t <= MaxTime}

Returned(c, op, key, err, val) ==
    [cl EXCEPT ![c] = [IdleClient EXCEPT
        !.ret = [op |-> op, key |-> key, err |-> err, val |-> val, keys |-> {}]]]

(***************************************************************************)
(* Store.Set, Store.Delete, Store.Close, Store.List: one step each, under  *)
(* the store's write (read, for List) lock.                                *)
(***************************************************************************)
\* a faulty Set that does not look at the segment manager before it appends
SetUnguarded(c, key, value) ==
    /\ hist.up /\ cl[c].pc = "idle" /\ StoreLockFree
    /\ sm = NilSM \/ hist.ops < MaxOps
    /\ \E now \in Times :
         LET entry == SetEntry(key, value, now)
             Appended(r) ==
                 IF r.err # "nil"
                 THEN /\ Install(r.w, r.m, mg,
                                 Returned(c, "Set", key, "failed to append entry", <<>>), foff)
                      /\ UNCHANGED <<ht, expect, hist>>
                 ELSE /\ Install(r.w, r.m, Dirtied(mg, key),
                                 Returned(c, "Set", key, "nil", <<>>), foff)
                      /\ ht' = HTPut(ht, key, r.id, r.offset, entry.ValueSize, entry.Timestamp,
                                     FreshPtr(UsedPtrs(ht, mg)))
                      /\ expect' = [expect EXCEPT ![key] = [found |-> TRUE, val |-> value,
                                                            deleted |-> FALSE]]
                      /\ hist' = [hist EXCEPT !.ops = @ + 1]
         IN  /\ clock' = now
             /\ Appended(SMAppend(World, sm, entry))
    /\ UNCHANGED isMerging
    /\ UNCHANGED unit

\* a faulty Set that updates the keydir before it looks at the error of the
\* append
SetPutsFirst(c, key, value) ==
    /\ hist.up /\ cl[c].pc = "idle" /\ StoreLockFree
    /\ sm = NilSM \/ hist.ops < MaxOps
    /\ IF sm = NilSM
       THEN /\ cl' = Returned(c, "Set", key, "store not properly initialized", <<>>)
            /\ UNCHANGED <<fs, foff, segs, baseDir, tmpDir, sm, ht, mg, clock, expect, hist>>
       ELSE \E now \in Times :
         LET entry == SetEntry(key, value, now)
             Appended(r) ==
                 /\ ht' = HTPut(ht, key, r.id, r.offset, entry.ValueSize, entry.Timestamp,
                                FreshPtr(UsedPtrs(ht, mg)))
                 /\ IF r.err # "nil"
                    THEN /\ Install(r.w, r.m, mg,
                                    Returned(c, "Set", key, "failed to append entry", <<>>), foff)
                         /\ UNCHANGED <<expect, hist>>
                    ELSE /\ Install(r.w, r.m, Dirtied(mg, key),
                                    Returned(c, "Set", key, "nil", <<>>), foff)
                         /\ expect' = [expect EXCEPT ![key] = [found |-> TRUE, val |-> value,
                                                               deleted |-> FALSE]]
                         /\ hist' = [hist EXCEPT !.ops = @ + 1]
         IN  /\ clock' = now
             /\ Appended(SMAppend(World, sm, entry))
    /\ UNCHANGED isMerging
    /\ UNCHANGED unit

Set(c, key, value) ==
    /\ hist.up /\ cl[c].pc = "idle" /\ StoreLockFree
    /\ sm = NilSM \/ hist.ops < MaxOps
    /\ IF sm = NilSM
       THEN /\ cl' = Returned(c, "Set", key, "store not properly initialized", <<>>)
            /\ UNCHANGED <<fs, foff, segs, baseDir, tmpDir, sm, ht, mg, clock, expect, hist>>
       ELSE \E now \in Times :
         LET entry == SetEntry(key, value, now)
             Appended(r) ==
                 IF r.err # "nil"
                 THEN /\ Install(r.w, r.m, mg,
                                 Returned(c, "Set", key, "failed to append entry", <<>>), foff)
                      /\ UNCHANGED <<ht, expect, hist>>
                 ELSE /\ Install(r.w, r.m, Dirtied(mg, key),
                                 Returned(c, "Set", key, "nil", <<>>), foff)
                      /\ ht' = HTPut(ht, key, r.id, r.offset, entry.ValueSize, entry.Timestamp,
                                     FreshPtr(UsedPtrs(ht, mg)))
                      /\ expect' = [expect EXCEPT ![key] = [found |-> TRUE, val |-> value,
                                                            deleted |-> FALSE]]
                      /\ hist' = [hist EXCEPT !.ops = @ + 1]
         IN  /\ clock' = now
             /\ Appended(SMAppend(World, sm, entry))
    /\ UNCHANGED isMerging
    /\ UNCHANGED unit

\* a faulty Delete that appends the tombstone without looking the key up
DeleteBlind(c, key) ==
    /\ hist.up /\ cl[c].pc = "idle" /\ StoreLockFree
    /\ hist.ops < MaxOps
    /\ LET Appended(r) ==
               /\ Install(r.w, r.m, Dirtied(mg, key), Returned(c, "Delete", key, r.err, <<>>),
                          foff)
               /\ ht' = HTDelete(ht, key)
               /\ expect' = [expect EXCEPT ![key] = [found |-> FALSE, val |-> <<>>,
                                                     deleted |-> TRUE]]
               /\ hist' = [hist EXCEPT !.ops = @ + 1]
       IN  Appended(SMAppend(World, sm, TombstoneOf(key, clock)))
    /\ UNCHANGED <<isMerging, clock, unit>>

Delete(c, key) ==
    /\ hist.up /\ cl[c].pc = "idle" /\ StoreLockFree
    /\ sm = NilSM \/ hist.ops < MaxOps
    /\ IF sm = NilSM
       THEN /\ cl' = Returned(c, "Delete", key, "store not properly initialized", <<>>)
            /\ UNCHANGED <<fs, foff, segs, baseDir, tmpDir, sm, ht, mg, clock, expect, hist>>
       ELSE IF key \notin DOMAIN ht
       THEN /\ cl' = Returned(c, "Delete", key, "ErrKeyNotFound", <<>>)
            /\ UNCHANGED <<fs, foff, segs, baseDir, tmpDir, sm, ht, mg, clock, expect, hist>>
       ELSE \E now \in Times :
              LET Appended(r) ==
                      IF r.err # "nil"
                      THEN /\ Install(r.w, r.m, mg,
                                      Returned(c, "Delete", key, "failed to append tombstone",
                                               <<>>), foff)
                           /\ UNCHANGED <<ht, expect, hist>>
                      ELSE /\ Install(r.w, r.m, Dirtied(mg, key),
                                      Returned(c, "Delete", key, "nil", <<>>), foff)
                           /\ ht' = HTDelete(ht, key)
                           /\ expect' = [expect EXCEPT ![key] = [found |-> FALSE, val |-> <<>>,
                                                                 deleted |-> TRUE]]
                           /\ hist' = [hist EXCEPT !.ops = @ + 1]
              IN  /\ clock' = now
                  /\ Appended(SMAppend(World, sm, TombstoneOf(key, now)))
    /\ UNCHANGED isMerging
    /\ UNCHANGED unit

\* Segment.Close waits for the segment's readers
Close(c) ==
    /\ hist.up /\ cl[c].pc = "idle" /\ StoreLockFree
    /\ ~hist.closed
    /\ ReadersOf(mg, cl) \cap RangeOf(sm.segments) = {}
    /\ LET Closed(r) == Install(r.w, r.m, mg, Returned(c, "Close", <<>>, "nil", <<>>), foff)
       IN  IF sm = NilSM
           THEN Install(World, sm, mg, Returned(c, "Close", <<>>, "nil", <<>>), foff)
           ELSE Closed(SMClose(World, sm))
    /\ hist' = [hist EXCEPT !.closed = TRUE,
                            !.quiet = \A i \in Mergers : mg[i].pc = "idle"]
    /\ UNCHANGED <<ht, isMerging, clock, expect>>
    /\ UNCHANGED unit

List(c) ==
    /\ hist.up /\ cl[c].pc = "idle"
    /\ cl' = [cl EXCEPT ![c] = [IdleClient EXCEPT
                !.ret = [op |-> "List", key |-> <<>>, err |-> "nil", val |-> <<>>,
                         keys |-> StoreList]]]
    /\ UNCHANGED <<fs, foff, segs, baseDir, tmpDir, sm, ht, isMerging, mg, clock, expect, hist>>
    /\ UNCHANGED unit

(***************************************************************************)
(* Store.Get.  It holds the store's read lock from the keydir lookup to    *)
(* the end of Segment.Read, which seeks and then reads the header and the  *)
(* body from the segment's os.File under the segment's read lock: three    *)
(* system calls on a file offset every reader of the segment shares.       *)
(* CS is the set of clients there are and G the number of Gets followed    *)
(* system call by system call; a Get no other reader can overlap is one    *)
(* step.                                                                   *)
(***************************************************************************)
GetCall(c, key, CS, G) ==
    /\ hist.up /\ cl[c].pc = "idle"
    /\ IF key \notin DOMAIN ht
       THEN /\ cl' = Returned(c, "Get", key, "ErrKeyNotFound", <<>>)
            /\ UNCHANGED <<foff, hist>>
       ELSE IF ht[key].FileID \notin DOMAIN sm.segments
       THEN /\ cl' = Returned(c, "Get", key, "failed to read entry", <<>>)
            /\ UNCHANGED <<foff, hist>>
       ELSE LET h == sm.segments[ht[key].FileID]
                pos == ht[key].ValuePos
                couldRace == \/ CS \ {c} # {}
                             \/ \E i \in Mergers : /\ mg[i].pc \in {"seek", "hdr", "body"}
                                                   /\ mg[i].cur = h
            IN  IF pos >= segs[h].size \/ segs[h].isClosed
                THEN /\ cl' = Returned(c, "Get", key, "failed to read entry", <<>>)
                     /\ UNCHANGED <<foff, hist>>
                ELSE IF couldRace /\ hist.gets < G
                THEN /\ cl' = [cl EXCEPT ![c] = [IdleClient EXCEPT
                                   !.pc = "hdr", !.key = key, !.ino = h]]
                     /\ foff' = With(foff, h, pos)
                     /\ hist' = [hist EXCEPT !.gets = @ + 1]
                ELSE /\ h \notin ReadersOf(mg, cl)
                     /\ LET Read(r) ==
                                IF r.err # "nil"
                                THEN Returned(c, "Get", key, "failed to read entry", <<>>)
                                ELSE Returned(c, "Get", key, "nil", r.entry.Value)
                        IN  cl' = Read(SegmentRead(fs, segs, h, pos))
                     /\ UNCHANGED <<foff, hist>>
    /\ UNCHANGED <<fs, segs, baseDir, tmpDir, sm, ht, isMerging, mg, clock, expect>>
    /\ UNCHANGED unit

GetHeader(c) ==
    /\ cl[c].pc = "hdr"
    /\ LET h == cl[c].ino
           Read(r) ==
               /\ cl' = IF r.ok THEN [cl EXCEPT ![c].pc = "body", ![c].hdr = r.data]
                        ELSE Returned(c, "Get", cl[c].key, "failed to read entry", <<>>)
               /\ foff' = Restrict(With(foff, h, r.off), ReadersOf(mg, cl'))
       IN  Read(ReadFull(fs[h], foff[h], HeaderSize))
    /\ UNCHANGED <<fs, segs, baseDir, tmpDir, sm, ht, isMerging, mg, clock, expect, hist>>
    /\ UNCHANGED unit

GetBody(c) ==
    /\ cl[c].pc = "body"
    /\ LET h == cl[c].ino
           Parsed(d) ==
               IF d.err = "nil" THEN Returned(c, "Get", cl[c].key, "nil", d.entry.Value)
               ELSE Returned(c, "Get", cl[c].key, "failed to read entry", <<>>)
           Read(r) ==
               /\ cl' = IF r.ok THEN Parsed(DeserializeEntry(cl[c].hdr \o r.data))
                        ELSE Returned(c, "Get", cl[c].key, "failed to read entry", <<>>)
               /\ foff' = Restrict(With(foff, h, r.off), ReadersOf(mg, cl'))
       IN  Read(ReadFull(fs[h], foff[h], U32(cl[c].hdr, 5) + U32(cl[c].hdr, 9)))
    /\ UNCHANGED <<fs, segs, baseDir, tmpDir, sm, ht, isMerging, mg, clock, expect, hist>>
    /\ UNCHANGED unit

(***************************************************************************)
(* Close followed by New on the same directory in a new process: the       *)
(* goroutines of the old process are gone, the files stay.                 *)
(***************************************************************************)
Restart ==
    /\ hist.up /\ hist.closed /\ StoreLockFree
    /\ hist.restarts < MaxRestarts
    /\ LET Loaded(n, r) ==
               /\ Install(n.w, n.m, [i \in Mergers |-> IdleMerger],
                          [c \in Clients |-> IdleClient], EmptyMap)
               /\ ht' = IF r.err = "nil" THEN r.index ELSE EmptyMap
               /\ hist' = [hist EXCEPT !.restarts = @ + 1, !.closed = FALSE, !.quiet = FALSE,
                                       !.up = (r.err = "nil")]
           Opened(n) == Loaded(n, loadFromSegments(n.w, n.m, GetSegmentIDs(n.m), EmptyMap))
       IN  Opened(NewSegmentManager([World EXCEPT !.segs = EmptyMap], "base"))
    /\ isMerging' = FALSE
    /\ UNCHANGED <<clock, expect>>
    /\ UNCHANGED unit

\* New when NewSegmentManager returns an error (the directory cannot be
\* created or read, or a segment file cannot be opened): the store is
\* returned with a nil segment manager and an empty keydir, and the ticker
\* goroutine is not started
RestartDegraded ==
    /\ hist.up /\ hist.closed /\ StoreLockFree
    /\ hist.restarts < MaxRestarts
    /\ Install([World EXCEPT !.segs = EmptyMap], NilSM, [i \in Mergers |-> IdleMerger],
               [c \in Clients |-> IdleClient], EmptyMap)
    /\ ht' = EmptyMap
    /\ hist' = [hist EXCEPT !.restarts = @ + 1, !.closed = FALSE, !.quiet = FALSE, !.up = TRUE]
    /\ isMerging' = FALSE
    /\ UNCHANGED <<clock, expect>>
    /\ UNCHANGED unit

(***************************************************************************)
(* Store.Merge, called by merger i.  MS is the set of callers there are.   *)
(* Its steps are the places where it synchronises with the rest: the load  *)
(* and the store of isMerging, the read of the inactive segment ids, the   *)
(* keydir Clone, GetSegment, the system calls of each Segment.Read, and    *)
(* the commit under the store's write lock.                                *)
(***************************************************************************)
MergeReturn(i, err) == [mg EXCEPT ![i] = [IdleMerger EXCEPT !.ret = err]]

\* if s.isMerging.Load() { return ErrMergeInProgress }
MergeCall(i) ==
    /\ hist.up /\ mg[i].pc = "idle"
    /\ hist.merges < MaxMerges
    /\ mg' = IF isMerging THEN MergeReturn(i, "ErrMergeInProgress")
             ELSE [mg EXCEPT ![i] = [IdleMerger EXCEPT !.pc = "guard"]]
    /\ hist' = [hist EXCEPT !.merges = @ + 1]
    /\ UNCHANGED <<fs, foff, segs, baseDir, tmpDir, sm, ht, isMerging, cl, clock, expect>>
    /\ UNCHANGED unit

\* s.isMerging.Store(true)
MergeStore(i) ==
    /\ mg[i].pc = "guard"
    /\ isMerging' = TRUE
    /\ mg' = [mg EXCEPT ![i].pc = "targets"]
    /\ UNCHANGED <<fs, foff, segs, baseDir, tmpDir, sm, ht, cl, clock, expect, hist>>
    /\ UNCHANGED unit

\* ids := sm.GetInactiveSegmentIDs(); the merge_tmp workspace and its manager
MergeTargets(i) ==
    /\ mg[i].pc = "targets"
    /\ LET ids == GetInactiveSegmentIDs(segs, sm)
       IN  IF ids = <<>>
           THEN /\ mg' = MergeReturn(i, "nil")
                /\ isMerging' = FALSE
                /\ UNCHANGED <<fs, foff, segs, baseDir, tmpDir, sm, cl>>
           ELSE LET Created(n) ==
                        Install(n.w, sm, [mg EXCEPT ![i].pc = "snap", ![i].ids = ids,
                                                     ![i].msm = n.m,
                                                     ![i].act0 = sm.activeID], cl, foff)
                IN  /\ Created(NewSegmentManager([World EXCEPT !.tmp = EmptyMap], "tmp"))
                    /\ UNCHANGED isMerging
    /\ UNCHANGED <<ht, clock, expect, hist>>
    /\ UNCHANGED unit

\* mergeHT := NewHashTable(); snap := s.hashTable.Clone()
MergeSnapshot(i) ==
    /\ mg[i].pc = "snap"
    /\ mg' = [mg EXCEPT ![i].pc = "seg", ![i].idx = 1, ![i].snap = HTClone(ht),
                        ![i].mht = EmptyMap]
    /\ UNCHANGED <<fs, foff, segs, baseDir, tmpDir, sm, ht, isMerging, cl, clock, expect, hist>>
    /\ UNCHANGED unit

\* the outer loop moves to the next id, or leaves for the commit
AdvanceSeg(m) ==
    [m EXCEPT !.idx = @ + 1, !.cur = 0, !.pos = 0, !.size = 0, !.hdr = <<>>,
              !.pc = IF m.idx + 1 > Len(m.ids) THEN "commit" ELSE "seg"]

\* seg, ok := s.segmentManager.GetSegment(id); size := seg.Size()
MergeSegment(i) ==
    /\ mg[i].pc = "seg"
    /\ LET id == mg[i].ids[mg[i].idx]
       IN  mg' = IF id \notin DOMAIN sm.segments THEN [mg EXCEPT ![i] = AdvanceSeg(@)]
                 ELSE IF segs[sm.segments[id]].size > 0
                 THEN [mg EXCEPT ![i].pc = "seek", ![i].cur = sm.segments[id], ![i].pos = 0,
                                 ![i].size = segs[sm.segments[id]].size]
                 ELSE [mg EXCEPT ![i] = AdvanceSeg(@)]
    /\ UNCHANGED <<fs, foff, segs, baseDir, tmpDir, sm, ht, isMerging, cl, clock, expect, hist>>
    /\ UNCHANGED unit

\* the body of the inner loop once seg.Read(pos) has returned entry se
CopyRecord(w, m, se, used) ==
    LET id == m.ids[m.idx]
        oldOff == m.pos
        m1 == [m EXCEPT !.pos = @ + EntrySize(se), !.hdr = <<>>]
        key == se.Key
        skip == \/ IsTombstone(se)
                \/ key \notin DOMAIN m.snap
                \/ m.snap[key].FileID # id
                \/ m.snap[key].ValuePos # oldOff
        Appended(a) ==
            IF a.err # "nil"
            THEN [err |-> "failed to append entry", w |-> a.w, m |-> [m1 EXCEPT !.msm = a.m]]
            ELSE [err |-> "nil", w |-> a.w,
                  m |-> [m1 EXCEPT !.msm = a.m,
                                   !.mht = HTPut(m.mht, key, a.id, a.offset, EntrySize(se),
                                                 se.Timestamp, FreshPtr(used))]]
    IN  IF skip THEN [err |-> "nil", w |-> w, m |-> m1]
        ELSE Appended(SMAppend(w, m.msm, se))

\* for pos < size
AfterRecord(m) == IF m.pos < m.size THEN [m EXCEPT !.pc = "seek"] ELSE AdvanceSeg(m)

\* a faulty error path that publishes the merge segments it has written so
\* far in the primary manager before it returns the error
MergeReadPublishes(i, r, off) ==
    IF r.err # "nil"
    THEN /\ Install(World, SMMerge(sm, mg[i].msm), MergeReturn(i, "compaction failed"), cl, off)
         /\ isMerging' = FALSE
    ELSE LET Copied(c) ==
                 IF c.err # "nil"
                 THEN /\ Install(c.w, SMMerge(sm, mg[i].msm), MergeReturn(i, c.err), cl, off)
                      /\ isMerging' = FALSE
                 ELSE /\ Install(c.w, sm, [mg EXCEPT ![i] = AfterRecord(c.m)], cl, off)
                      /\ UNCHANGED isMerging
         IN  Copied(CopyRecord(World, mg[i], r.entry, UsedPtrs(ht, mg)))

\* the merger's step once its Segment.Read has returned r
MergeRead(i, r, off) ==
    IF r.err # "nil"
    THEN /\ Install(World, sm, MergeReturn(i, "compaction failed"), cl, off)
         /\ isMerging' = FALSE
    ELSE LET Copied(c) ==
                 IF c.err # "nil"
                 THEN /\ Install(c.w, sm, MergeReturn(i, c.err), cl, off)
                      /\ isMerging' = FALSE
                 ELSE /\ Install(c.w, sm, [mg EXCEPT ![i] = AfterRecord(c.m)], cl, off)
                      /\ UNCHANGED isMerging
         IN  Copied(CopyRecord(World, mg[i], r.entry, UsedPtrs(ht, mg)))

\* se, err := seg.Read(pos): the bounds check and the Seek
MergeSeek(i, CS, MS, G) ==
    /\ mg[i].pc = "seek"
    /\ LET h == mg[i].cur
           pos == mg[i].pos
           couldRace == \/ MS \ {i} # {}
                        \/ CS # {} /\ hist.gets < G
                        \/ h \in ReadersOf(mg, cl)
       IN  IF ~(pos >= segs[h].size) /\ ~segs[h].isClosed /\ couldRace
           THEN /\ mg' = [mg EXCEPT ![i].pc = "hdr"]
                /\ foff' = With(foff, h, pos)
                /\ UNCHANGED <<fs, segs, baseDir, tmpDir, sm, cl, isMerging>>
           ELSE MergeRead(i, SegmentRead(fs, segs, h, pos), foff)
    /\ UNCHANGED <<ht, clock, expect, hist>>
    /\ UNCHANGED unit

\* io.ReadFull(s.file, header)
MergeHeader(i) ==
    /\ mg[i].pc = "hdr"
    /\ LET h == mg[i].cur
           Read(r) ==
               IF r.ok
               THEN /\ mg' = [mg EXCEPT ![i].pc = "body", ![i].hdr = r.data]
                    /\ foff' = With(foff, h, r.off)
                    /\ UNCHANGED <<fs, segs, baseDir, tmpDir, sm, cl, isMerging>>
               ELSE MergeRead(i, [err |-> "failed to read entry header", entry |-> NoEntry],
                              With(foff, h, r.off))
       IN  Read(ReadFull(fs[h], foff[h], HeaderSize))
    /\ UNCHANGED <<ht, clock, expect, hist>>
    /\ UNCHANGED unit

\* io.ReadFull(s.file, entryData[12:]); DeserializeEntry(entryData)
MergeBody(i) ==
    /\ mg[i].pc = "body"
    /\ LET h == mg[i].cur
           Read(r) ==
               MergeRead(i, IF r.ok THEN DeserializeEntry(mg[i].hdr \o r.data)
                            ELSE [err |-> "failed to read entry data", entry |-> NoEntry],
                         With(foff, h, r.off))
       IN  Read(ReadFull(fs[h], foff[h], U32(mg[i].hdr, 5) + U32(mg[i].hdr, 9)))
    /\ UNCHANGED <<ht, clock, expect, hist>>
    /\ UNCHANGED unit

\* for _, id := range ids { s.segmentManager.DeleteSegment(id) }
RECURSIVE DeleteSegments(_, _, _)
DeleteSegments(w, m, ids) ==
    IF ids = <<>> THEN [err |-> "nil", w |-> w, m |-> m]
    ELSE LET Deleted(r) == IF r.err # "nil" THEN r ELSE DeleteSegments(r.w, r.m, Tail(ids))
         IN  Deleted(DeleteSegment(w, m, Head(ids)))

\* os.Rename of every file of merge_tmp into basePath
RenameAll(w) == [w EXCEPT !.base = Merged(w.base, w.tmp), !.tmp = EmptyMap]

\* mergeSM.FlushAll() and the commit, under the store's write lock
MergeCommit(i) ==
    /\ mg[i].pc = "commit"
    /\ StoreLockFree
    /\ ReadersOf(mg, cl) \cap {sm.segments[id] : id \in RangeOf(mg[i].ids) \cap DOMAIN sm.segments}
         = {}
    /\ LET Deleted(d) ==
               IF d.err # "nil"
               THEN /\ Install(d.w, d.m, MergeReturn(i, "delete seg"), cl, foff)
                    /\ UNCHANGED <<ht, hist>>
               ELSE /\ Install(RenameAll(d.w), SMMerge(d.m, mg[i].msm), MergeReturn(i, "nil"),
                               cl, foff)
                    /\ ht' = HTMerge(ht, mg[i].mht, mg[i].snap)
                    /\ hist' = [hist EXCEPT
                                  !.commits = @ + 1,
                                  !.overtaken = @ \/ mg[i].dirty \cap DOMAIN mg[i].mht # {}]
       IN  Deleted(DeleteSegments(World, sm, mg[i].ids))
    /\ isMerging' = FALSE
    /\ UNCHANGED <<clock, expect>>
    /\ UNCHANGED unit

(***************************************************************************)
(* The specifications.                                                     *)
(***************************************************************************)
\* one client and the ticker goroutine's compaction
Next ==
    \/ \E k \in Keys, v \in Values : Set(1, k, v)
    \/ \E k \in Keys : Delete(1, k)
    \/ \E k \in Keys : GetCall(1, k, {1}, MaxGets)
    \/ GetHeader(1)
    \/ GetBody(1)
    \/ List(1)
    \/ MergeCall(1)
    \/ MergeStore(1)
    \/ MergeTargets(1)
    \/ MergeSnapshot(1)
    \/ MergeSegment(1)
    \/ MergeSeek(1, {1}, {1}, MaxGets)
    \/ MergeHeader(1)
    \/ MergeBody(1)
    \/ MergeCommit(1)

Spec == Init /\ [][Next]_vars

\* a writer, the ticker goroutine's compaction, Close and the next start of
\* the program on the same directory
NextReopen ==
    \/ \E k \in Keys, v \in Values : Set(1, k, v)
    \/ \E k \in Keys : Delete(1, k)
    \/ Close(1)
    \/ Restart
    \/ MergeCall(1)
    \/ MergeStore(1)
    \/ MergeTargets(1)
    \/ MergeSnapshot(1)
    \/ MergeSegment(1)
    \/ MergeSeek(1, {}, {1}, 0)
    \/ MergeCommit(1)

SpecReopen == Init /\ [][NextReopen]_vars

(***************************************************************************)
(* A store opened by New on the directory that the run Set(<<1>>, <<1>>),  *)
(* Set(<<2>>, <<1>>), Close left behind: segment files 1 and 2 with one    *)
(* record each, both loaded inactive, and a fresh empty active segment 3.  *)
(***************************************************************************)
InitReplay ==
    LET w0 == [fs |-> (1 :> Serialize(SetEntry(<<1>>, <<1>>, 1)) @@
                       2 :> Serialize(SetEntry(<<2>>, <<1>>, 1))),
               segs |-> EmptyMap, base |-> (1 :> 1 @@ 2 :> 2), tmp |-> EmptyMap]
        Opened(n, r) ==
            /\ fs = n.w.fs
            /\ segs = n.w.segs
            /\ baseDir = n.w.base
            /\ tmpDir = n.w.tmp
            /\ sm = n.m
            /\ ht = r.index
        Loaded(n) == Opened(n, loadFromSegments(n.w, n.m, GetSegmentIDs(n.m), EmptyMap))
    IN  /\ Loaded(NewSegmentManager(w0, "base"))
        /\ foff = EmptyMap
        /\ isMerging = FALSE
        /\ mg = [i \in Mergers |-> IdleMerger]
        /\ cl = [c \in Clients |-> IdleClient]
        /\ clock = 1
        /\ expect = [k \in Keys |-> [val |-> <<1>>, found |-> TRUE, deleted |-> FALSE]]
        /\ hist = [ops |-> 0, merges |-> 0, restarts |-> 0, gets |-> 0, commits |-> 0,
                   overtaken |-> FALSE, closed |-> FALSE, quiet |-> FALSE, up |-> TRUE]
        /\ unit = NoCall

\* the calls of one caller that makes them one after the other: a Set,
\* Delete, Close or New only when no Merge is running
MergeIdle == \A i \in Mergers : mg[i].pc = "idle"

NextReplay ==
    \/ \E k \in Keys, v \in Values : MergeIdle /\ Set(1, k, v)
    \/ \E k \in Keys : MergeIdle /\ Delete(1, k)
    \/ MergeIdle /\ Close(1)
    \/ Restart
    \/ MergeCall(1)
    \/ MergeStore(1)
    \/ MergeTargets(1)
    \/ MergeSnapshot(1)
    \/ MergeSegment(1)
    \/ MergeSeek(1, {}, {1}, 0)
    \/ MergeCommit(1)

SpecReplay == InitReplay /\ [][NextReplay]_vars

\* one client of a store whose re-opening may fail to build its manager
NextDegraded ==
    \/ \E k \in Keys, v \in Values : Set(1, k, v)
    \/ \E k \in Keys : Delete(1, k)
    \/ \E k \in Keys : GetCall(1, k, {}, 0)
    \/ List(1)
    \/ Close(1)
    \/ Restart
    \/ RestartDegraded

SpecDegraded == Init /\ [][NextDegraded]_vars

\* the key client c works on
KeyOf(c) == <<c>>

\* two clients, each setting and getting its own key, and no compaction
NextClients ==
    \/ \E c \in Clients, v \in Values : Set(c, KeyOf(c), v)
    \/ \E c \in Clients : GetCall(c, KeyOf(c), Clients, 2 * MaxGets)
    \/ \E c \in Clients : GetHeader(c)
    \/ \E c \in Clients : GetBody(c)

SpecClients == Init /\ [][NextClients]_vars

\* a writer and two callers of Store.Merge
NextMergers ==
    \/ \E k \in Keys, v \in Values : Set(1, k, v)
    \/ \E k \in Keys : Delete(1, k)
    \/ \E i \in Mergers : MergeCall(i)
    \/ \E i \in Mergers : MergeStore(i)
    \/ \E i \in Mergers : MergeTargets(i)
    \/ \E i \in Mergers : MergeSnapshot(i)
    \/ \E i \in Mergers : MergeSegment(i)
    \/ \E i \in Mergers : MergeSeek(i, {}, Mergers, 0)
    \/ \E i \in Mergers : MergeHeader(i)
    \/ \E i \in Mergers : MergeBody(i)
    \/ \E i \in Mergers : MergeCommit(i)

SpecMergers == Init /\ [][NextMergers]_vars
(***************************************************************************)
(* Direct calls of the SegmentManager of a new store and of its Segment    *)
(* objects, as the package's own callers and tests make them.  unit keeps  *)
(* the arguments and the results of the last call.                         *)
(***************************************************************************)
UnitEntries == {SetEntry(k, v, 1) : k \in Keys, v \in Values}

Positions == 0..(2 * MaxSegmentSize)

SegmentIDs == 1..(MaxCalls + 1)

Called(op) == [NoCall EXCEPT !.op = op, !.n = unit.n + 1]

\* sm.Append(entry)
SMAppendCall(entry) ==
    /\ unit.n < MaxCalls /\ sm # NilSM
    /\ LET Done(r) ==
               /\ Install(r.w, r.m, mg, cl, foff)
               /\ unit' = [Called("SegmentManager.Append") EXCEPT
                             !.entry = entry, !.err = r.err, !.id = r.id, !.offset = r.offset]
       IN  Done(SMAppend(World, sm, entry))
    /\ UNCHANGED <<ht, isMerging, clock, expect, hist>>

\* sm.Read(id, pos)
SMReadCall(id, pos) ==
    /\ unit.n < MaxCalls
    /\ LET Done(r) ==
               unit' = [Called("SegmentManager.Read") EXCEPT
                          !.id = id, !.pos = pos, !.err = r.err, !.out = r.entry]
       IN  Done(SMRead(World, sm, id, pos))
    /\ UNCHANGED <<fs, foff, segs, baseDir, tmpDir, sm, ht, isMerging, mg, cl, clock, expect,
                   hist>>

\* seg, _ := sm.GetSegment(id); seg.Append(entry)
SegAppendCall(id, entry) ==
    /\ unit.n < MaxCalls
    /\ id \in DOMAIN sm.segments
    /\ LET Done(a) ==
               /\ fs' = a.fs
               /\ segs' = a.segs
               /\ unit' = [Called("Segment.Append") EXCEPT
                             !.id = id, !.entry = entry, !.err = a.err, !.offset = a.offset]
       IN  Done(SegmentAppend(fs, segs, sm.segments[id], entry))
    /\ UNCHANGED <<foff, baseDir, tmpDir, sm, ht, isMerging, mg, cl, clock, expect, hist>>

\* seg, _ := sm.GetSegment(id); seg.Read(pos)
SegReadCall(id, pos) ==
    /\ unit.n < MaxCalls
    /\ id \in DOMAIN sm.segments
    /\ LET Done(r) ==
               unit' = [Called("Segment.Read") EXCEPT
                          !.id = id, !.pos = pos, !.err = r.err, !.out = r.entry]
       IN  Done(SegmentRead(fs, segs, sm.segments[id], pos))
    /\ UNCHANGED <<fs, foff, segs, baseDir, tmpDir, sm, ht, isMerging, mg, cl, clock, expect,
                   hist>>

\* seg, _ := sm.GetSegment(id); seg.Close()
SegCloseCall(id) ==
    /\ unit.n < MaxCalls
    /\ id \in DOMAIN sm.segments
    /\ segs' = [segs EXCEPT ![sm.segments[id]] = SegmentClose(@)]
    /\ unit' = [Called("Segment.Close") EXCEPT !.id = id]
    /\ UNCHANGED <<fs, foff, baseDir, tmpDir, sm, ht, isMerging, mg, cl, clock, expect, hist>>

\* sm.Close(), by a caller that still holds the segments it got from
\* GetSegment
SMCloseCall ==
    /\ unit.n < MaxCalls /\ sm # NilSM
    /\ LET Done(r) ==
               /\ segs' = r.w.segs
               /\ sm' = r.m
       IN  Done(SMClose(World, sm))
    /\ unit' = Called("SegmentManager.Close")
    /\ UNCHANGED <<fs, foff, baseDir, tmpDir, ht, isMerging, mg, cl, clock, expect, hist>>

\* sm.Close(); sm, _ = NewSegmentManager(basePath)
ReloadCall ==
    /\ unit.n < MaxCalls /\ sm # NilSM
    /\ LET Loaded(n) == Install(n.w, n.m, mg, cl, foff)
           Closed(c) == Loaded(NewSegmentManager(c.w, "base"))
       IN  Closed(SMClose(World, sm))
    /\ unit' = Called("NewSegmentManager")
    /\ UNCHANGED <<ht, isMerging, clock, expect, hist>>

NextSegments ==
    \/ \E e \in UnitEntries : SMAppendCall(e)
    \/ \E id \in SegmentIDs, pos \in Positions : SMReadCall(id, pos)
    \/ \E id \in SegmentIDs, e \in UnitEntries : SegAppendCall(id, e)
    \/ \E id \in SegmentIDs, pos \in Positions : SegReadCall(id, pos)
    \/ \E id \in SegmentIDs : SegCloseCall(id)
    \/ SMCloseCall
    \/ ReloadCall

SpecSegments == Init /\ [][NextSegments]_vars

(***************************************************************************)
(* NewSegmentManager on a directory that already holds segment files.      *)
(***************************************************************************)
\* the i-th smallest element of S is at place i
(***************************************************************************)
(* Direct calls of the HashTable, as its unit tests and Store.Merge make   *)
(* them: ht is the live table, mg[1].snap the table Clone returned and     *)
(* mg[1].mht a second table that receives Puts of its own (mergeHT).       *)
(***************************************************************************)
TableFileIDs == {1, 2}

TableCalled(op, key) == [NoCall EXCEPT !.op = op, !.n = unit.n + 1, !.data = key]

\* kd.Put(key, fileID, 0, 1, 1)
HTPutCall(key, fileID) ==
    /\ unit.n < MaxTableCalls
    /\ ht' = HTPut(ht, key, fileID, 0, 1, 1, FreshPtr(UsedPtrs(ht, mg)))
    /\ unit' = TableCalled("HashTable.Put", key)
    /\ UNCHANGED <<fs, foff, segs, baseDir, tmpDir, sm, isMerging, mg, cl, clock, expect, hist>>

\* kd.Delete(key)
HTDeleteCall(key) ==
    /\ unit.n < MaxTableCalls
    /\ ht' = HTDelete(ht, key)
    /\ unit' = TableCalled("HashTable.Delete", key)
    /\ UNCHANGED <<fs, foff, segs, baseDir, tmpDir, sm, isMerging, mg, cl, clock, expect, hist>>

\* snap := kd.Clone()
HTCloneCall ==
    /\ unit.n < MaxTableCalls
    /\ mg' = [mg EXCEPT ![1].snap = HTClone(ht)]
    /\ unit' = TableCalled("HashTable.Clone", <<>>)
    /\ UNCHANGED <<fs, foff, segs, baseDir, tmpDir, sm, ht, isMerging, cl, clock, expect, hist>>

\* mergeHT.Put(key, fileID, 0, 1, 1)
SrcPutCall(key, fileID) ==
    /\ unit.n < MaxTableCalls
    /\ mg' = [mg EXCEPT ![1].mht = HTPut(@, key, fileID, 0, 1, 1, FreshPtr(UsedPtrs(ht, mg)))]
    /\ unit' = TableCalled("mergeHT.Put", key)
    /\ UNCHANGED <<fs, foff, segs, baseDir, tmpDir, sm, ht, isMerging, cl, clock, expect, hist>>

\* kd.Merge(mergeHT, snap)
HTMergeCall ==
    /\ unit.n < MaxTableCalls
    /\ ht' = HTMerge(ht, mg[1].mht, mg[1].snap)
    /\ unit' = TableCalled("HashTable.Merge", <<>>)
    /\ UNCHANGED <<fs, foff, segs, baseDir, tmpDir, sm, isMerging, mg, cl, clock, expect, hist>>

NextKeydir ==
    \/ \E k \in Keys, id \in TableFileIDs : HTPutCall(k, id)
    \/ \E k \in Keys : HTDeleteCall(k)
    \/ HTCloneCall
    \/ \E k \in Keys, id \in TableFileIDs : SrcPutCall(k, id)
    \/ HTMergeCall

SpecKeydir == Init /\ [][NextKeydir]_vars

RankIn(S, id) == Cardinality({x \in S : x <= id})

\* a directory with the segment files of the ids S; full says which of
\* them hold a record
InitLoad ==
    /\ \E S \in SUBSET (1..MaxSegmentID) : \E full \in SUBSET S :
          /\ baseDir = [id \in S |-> RankIn(S, id)]
          /\ fs = [i \in 1..Cardinality(S) |->
                     IF \E id \in full : RankIn(S, id) = i
                     THEN Serialize(SetEntry(<<1>>, <<1>>, 1)) ELSE <<>>]
    /\ segs = EmptyMap
    /\ tmpDir = EmptyMap
    /\ foff = EmptyMap
    /\ sm = NilSM
    /\ ht = EmptyMap
    /\ isMerging = FALSE
    /\ mg = [i \in Mergers |-> IdleMerger]
    /\ cl = [c \in Clients |-> IdleClient]
    /\ clock = 1
    /\ expect = [k \in Keys |-> NotFound]
    /\ hist = [ops |-> 0, merges |-> 0, restarts |-> 0, gets |-> 0, commits |-> 0,
               overtaken |-> FALSE, closed |-> FALSE, quiet |-> FALSE, up |-> FALSE]
    /\ unit = NoCall

\* sm, _ := NewSegmentManager(basePath)
LoadCall ==
    /\ sm = NilSM
    /\ LET Loaded(n) == Install(n.w, n.m, mg, cl, foff)
       IN  Loaded(NewSegmentManager(World, "base"))
    /\ unit' = Called("NewSegmentManager")
    /\ UNCHANGED <<ht, isMerging, clock, expect, hist>>

NextLoad ==
    \/ LoadCall
    \/ \E e \in UnitEntries : SMAppendCall(e)
    \/ ReloadCall

SpecLoad == InitLoad /\ [][NextLoad]_vars

(***************************************************************************)
(* Direct calls of the codec: Serialize on an Entry, DeserializeEntry on   *)
(* its result or on a buffer that did not come from Serialize.             *)
(***************************************************************************)
CodecBytes == {0, 1, 255}

CodecTimes == {0, 1, 258, 2147483647}

\* the byte strings of at most MaxLen bytes
Strings == UNION {[1..n -> CodecBytes] : n \in 0..MaxLen}

\* entries as Store.Set and Store.Delete build them, and entries whose
\* KeySize counts one byte more than the key has
CodecEntries ==
    {[Timestamp |-> t, KeySize |-> Len(k) + d, ValueSize |-> Len(v), Key |-> k, Value |-> v] :
        t \in CodecTimes, k \in Strings, v \in Strings, d \in {0, 1}}

CodecSizes == {0, 1, 2, 16777216}

\* buffers of fewer than 12 bytes, and headers followed by any number of bytes
CodecBuffers ==
    {[i \in 1..n |-> b] : n \in 0..(HeaderSize - 1), b \in CodecBytes}
    \cup {LE32(t) \o LE32(ks) \o LE32(vs) \o [i \in 1..n |-> b] :
            t \in {1}, ks \in CodecSizes, vs \in CodecSizes, n \in 0..(2 * MaxLen + 1),
            b \in CodecBytes}

InitCodec ==
    /\ InitStore
    /\ unit \in {[NoCall EXCEPT !.op = "entry", !.entry = e] : e \in CodecEntries}
                \cup {[NoCall EXCEPT !.op = "data", !.data = b] : b \in CodecBuffers}

\* data := entry.Serialize()
SerializeCall ==
    /\ unit.op = "entry"
    /\ unit' = [unit EXCEPT !.op = "Serialize", !.n = 1, !.data = Serialize(unit.entry)]
    /\ UNCHANGED <<fs, foff, segs, baseDir, tmpDir, sm, ht, isMerging, mg, cl, clock, expect,
                   hist>>

\* out, err := DeserializeEntry(data)
DeserializeCall ==
    /\ unit.op \in {"Serialize", "data"}
    /\ LET Done(d) ==
               unit' = [unit EXCEPT !.op = "DeserializeEntry", !.n = @ + 1,
                                    !.err = d.err, !.out = d.entry]
       IN  Done(DeserializeEntry(unit.data))
    /\ UNCHANGED <<fs, foff, segs, baseDir, tmpDir, sm, ht, isMerging, mg, cl, clock, expect,
                   hist>>

NextCodec ==
    \/ SerializeCall
    \/ DeserializeCall

SpecCodec == InitCodec /\ [][NextCodec]_vars

(***************************************************************************)
(* The properties.                                                         *)
(***************************************************************************)
\* what Get(k) returns when the Set/Delete calls made so far are all that happened
ExpectedGet(k) ==
    IF expect[k].found THEN [err |-> "nil", val |-> expect[k].val]
    ELSE [err |-> "ErrKeyNotFound", val |-> <<>>]

\* no call is in flight: every client and every Merge caller is idle
Quiescent ==
    /\ \A c \in Clients : cl[c].pc = "idle"
    /\ \A i \in Mergers : mg[i].pc = "idle"

\* the last operation on k did not write the empty value, which the log cannot
\* tell from a tombstone
NotEmptied(k) == expect[k].found => expect[k].val # <<>>

\* C1: whatever Merge runs were interleaved with the Set/Delete calls, once
\* all calls have returned Get(k) returns what the same Set/Delete calls give
\* with Merge a no-op: the value of the last Set(k), or KeyNotFound if k was
\* never set or was deleted last.  Stated for the keys whose last Set wrote a
\* value that is not empty, and for the runs in which no Get overlapped a read
\* of the compaction.
C1_MergeIsNoOpForGet ==
    (hist.up /\ ~hist.closed /\ Quiescent /\ hist.gets = 0) =>
        \A k \in Keys : NotEmptied(k) => StoreGet(k) = ExpectedGet(k)

\* merger i's Merge call commits in this step
Commits(i) == mg[i].pc = "commit" /\ mg'[i].pc = "idle" /\ mg'[i].ret = "nil"

\* C2: a Set(k) or Delete(k) that committed between the keydir snapshot of a
\* compaction and its commit wins: the commit leaves k's keydir entry as the
\* foreground call installed it, still resolving to the Segment object that
\* received the Set, or leaves k absent after a Delete; the merge-produced
\* location of k is not installed.
C2_ForegroundWriteWins ==
    [][\A i \in Mergers : Commits(i) =>
          \A k \in mg[i].dirty :
              IF k \in DOMAIN ht
              THEN /\ k \in DOMAIN ht' /\ ht'[k] = ht[k]
                   /\ ht[k].FileID \in DOMAIN sm.segments \cap DOMAIN sm'.segments
                   /\ sm'.segments[ht[k].FileID] = sm.segments[ht[k].FileID]
              ELSE k \notin DOMAIN ht']_vars

\* a compaction has committed although a key it had copied was written after
\* its snapshot
C2_Witness == hist.overtaken

\* the result of the last call of client c
Result(c) == [err |-> cl[c].ret.err, val |-> cl[c].ret.val]

\* C4: last write wins.  While no compaction has started, Get(k) returns the
\* value of the most recent Set(k, v), across segment rotations, and
\* KeyNotFound for a key that was never set (or was deleted last).
C4_LastWriteWins ==
    (hist.up /\ ~hist.closed /\ hist.merges = 0 /\ hist.restarts = 0) =>
        /\ \A k \in Keys : StoreGet(k) = ExpectedGet(k)
        /\ \A c \in Clients :
              (cl[c].pc = "idle" /\ cl[c].ret.op = "Get") => Result(c) = ExpectedGet(cl[c].ret.key)

\* Set(k, v1); Set(k, <<2>>); Get(k) has returned <<2>>, the second Set having
\* gone to a new segment
C4_Witness ==
    \E k \in Keys :
        /\ hist.ops = 2 /\ hist.merges = 0
        /\ \A j \in Keys \ {k} : expect[j] = NotFound
        /\ k \in DOMAIN ht /\ ht[k].FileID = 2
        /\ cl[1].ret = [op |-> "Get", key |-> k, err |-> "nil", val |-> <<2>>, keys |-> {}]

\* this step is a successful Delete(k)
DeleteStep(k) == k \in DOMAIN ht /\ k \notin DOMAIN ht' /\ hist'.ops = hist.ops + 1

\* this step appends exactly one record to the log, a tombstone of k
OneTombstoneAppended(k) ==
    \E ino \in DOMAIN fs' :
        LET old == IF ino \in DOMAIN fs THEN fs[ino] ELSE <<>>
            new == fs'[ino]
        IN  /\ Len(new) = Len(old) + HeaderSize + Len(k)
            /\ SubSeq(new, 1, Len(old)) = old
            /\ DeserializeEntry(SubSeq(new, Len(old) + 1, Len(new))).err = "nil"
            /\ DeserializeEntry(SubSeq(new, Len(old) + 1, Len(new))).entry.Key = k
            /\ IsTombstone(DeserializeEntry(SubSeq(new, Len(old) + 1, Len(new))).entry)
            /\ \A o \in DOMAIN fs' \ {ino} : o \in DOMAIN fs /\ fs'[o] = fs[o]

\* C5: from a successful Delete(k) to the next Set(k), Get(k) returns
\* KeyNotFound and List() does not hold k; and the Delete appends exactly one
\* tombstone record (value size 0) of k to the log.
C5_DeleteHidesKey ==
    /\ [](hist.up =>
            \A k \in Keys : expect[k].deleted =>
                /\ StoreGet(k).err = "ErrKeyNotFound"
                /\ k \notin StoreList
                /\ \A c \in Clients :
                      /\ (cl[c].ret.op = "Get" /\ cl[c].ret.key = k)
                            => cl[c].ret.err = "ErrKeyNotFound"
                      /\ cl[c].ret.op = "List" => k \notin cl[c].ret.keys)
    /\ [][\A k \in Keys : DeleteStep(k) => OneTombstoneAppended(k)]_vars

\* Get(k) has returned KeyNotFound for a key that was set and then deleted
C5_Witness ==
    \E k \in Keys :
        /\ expect[k].deleted
        /\ cl[1].ret = [op |-> "Get", key |-> k, err |-> "ErrKeyNotFound", val |-> <<>>,
                        keys |-> {}]

\* this step is New on the directory of the closed store
RestartStep == hist'.restarts = hist.restarts + 1

\* C3: after Set, Delete and Merge calls that had all returned before Close, and a
\* re-open on the same directory, the store opens and Get(k) returns the last
\* value written to k before the shutdown, or KeyNotFound if k was deleted
\* last or never set.  Stated for the keys whose last Set wrote a value that
\* is not empty.
C3_ReopenKeepsLastValue ==
    [][(RestartStep /\ hist.quiet /\ Quiescent) =>
          /\ hist'.up
          /\ \A k \in Keys : NotEmptied(k) => StoreGet(k)' = ExpectedGet(k)]_vars

\* C6: with concurrent clients that each Set and Get a key of their own,
\* every Get returns the value the client set last (every Segment.Read
\* returns the record appended at its offset while other readers use the
\* segment).  Stated for the clients whose own value is not empty.
C6_ConcurrentGetsSeeOwnWrites ==
    \A c \in Clients :
        (cl[c].pc = "idle" /\ cl[c].ret.op = "Get" /\ NotEmptied(KeyOf(c)))
            => Result(c) = ExpectedGet(KeyOf(c))

\* merger i is past the isMerging guard of Store.Merge
PastGuard(i) == mg[i].pc \in {"targets", "snap", "seg", "seek", "hdr", "body", "commit"}

\* C7: compaction runs serially: at most one Merge call is past the
\* isMerging guard at a time.
C7_MergeIsSerial == Cardinality({i \in Mergers : PastGuard(i)}) <= 1

\* C8: keydir invariant: every key of the keydir references a segment the
\* segment manager holds and an offset where a non-tombstone record with the
\* same key and the same timestamp lies (Set of an empty value included).
C8_KeydirInvariant ==
    (hist.up /\ ~hist.closed) =>
        \A k \in DOMAIN ht :
            /\ ht[k].FileID \in DOMAIN sm.segments
            /\ SMRead(World, sm, ht[k].FileID, ht[k].ValuePos).err = "nil"
            /\ ~IsTombstone(SMRead(World, sm, ht[k].FileID, ht[k].ValuePos).entry)
            /\ SMRead(World, sm, ht[k].FileID, ht[k].ValuePos).entry.Key = k
            /\ SMRead(World, sm, ht[k].FileID, ht[k].ValuePos).entry.Timestamp = ht[k].Timestamp

\* C9: at most one segment of the store's segment manager has its active
\* flag set.
C9_OneActiveSegment ==
    Cardinality({id \in DOMAIN sm.segments : segs[sm.segments[id]].isActive}) <= 1

\* C10: at every compaction commit the ids of the merge-produced segments are
\* disjoint from the ids of the segments that stay in the primary segment
\* manager once the targets are deleted.
C10_MergedIdsDisjoint ==
    [][\A i \in Mergers : Commits(i) =>
          DOMAIN mg[i].msm.segments \cap (DOMAIN sm.segments \ RangeOf(mg[i].ids)) = {}]_vars

\* the records of a file, in file order, from byte position pos on
RECURSIVE RecordsFrom(_, _)
RecordsFrom(bytes, pos) ==
    IF pos + HeaderSize > Len(bytes) THEN <<>>
    ELSE LET n == HeaderSize + U32(bytes, pos + 5) + U32(bytes, pos + 9)
         IN  IF pos + n > Len(bytes) THEN <<>>
             ELSE <<DeserializeEntry(SubSeq(bytes, pos + 1, pos + n)).entry>>
                  \o RecordsFrom(bytes, pos + n)

\* the places <<inode, index>> of the records merger i has written to merge_tmp
MergedPlaces(i) ==
    {<<ino, j>> \in RangeOf(mg[i].msm.segments) \X (1..MaxOps) :
        j <= Len(RecordsFrom(fs[ino], 0))}

MergedRecord(pl) == RecordsFrom(fs[pl[1]], 0)[pl[2]]

\* the keys whose entry in merger i's keydir snapshot lies in a target segment
LiveInTargets(i) ==
    {k \in DOMAIN mg[i].snap : mg[i].snap[k].FileID \in RangeOf(mg[i].ids)}

\* C11: a Merge that ran with no foreground write beside it commits: every
\* target segment is gone from the segment manager and from the directory,
\* Get and List answer as before the commit, and the merge-produced segments
\* hold exactly one record for each key whose snapshot entry lay in a target
\* segment, the live one, and neither tombstones nor superseded records.
\* Stated for the runs in which no key was last set to the empty value and no
\* Get overlapped a read of the compaction.
C11_MergeCompacts ==
    [][\A i \in Mergers :
          (Commits(i) /\ mg[i].alone /\ hist.gets = 0 /\ \A k \in Keys : NotEmptied(k)) =>
              /\ \A id \in RangeOf(mg[i].ids) :
                    /\ id \in DOMAIN sm.segments
                    /\ sm.segments[id] \notin RangeOf(sm'.segments)
                    /\ sm.segments[id] \notin RangeOf(baseDir')
              /\ StoreList' = StoreList
              /\ \A k \in Keys : StoreGet(k)' = StoreGet(k)
              /\ \A k \in LiveInTargets(i) :
                    Cardinality({pl \in MergedPlaces(i) : MergedRecord(pl).Key = k}) = 1
              /\ \A pl \in MergedPlaces(i) :
                    /\ ~IsTombstone(MergedRecord(pl))
                    /\ MergedRecord(pl).Key \in LiveInTargets(i)
                    /\ MergedRecord(pl).Value = expect[MergedRecord(pl).Key].val]_vars

\* the Segment object of segment id of the store's segment manager
Seg(id) == segs[sm.segments[id]]

\* the segment is open and active and has reached maxSize or maxEntries
ReportsFull(seg) ==
    /\ ~seg.isClosed /\ seg.isActive
    /\ (seg.size >= MaxSegmentSize \/ seg.entryCount >= MaxEntriesPerSegment)

\* this step is a direct call of op
CallStep(op) == unit'.n = unit.n + 1 /\ unit'.op = op

C13_SizeWithinMax ==
    /\ \A ino \in DOMAIN segs : segs[ino].size <= MaxSegmentSize
    /\ (unit.op \in {"Segment.Append", "SegmentManager.Append"} /\ unit.err = "nil") =>
           unit.offset + EntrySize(unit.entry) <= MaxSegmentSize

\* C14: Segment.Append on an open, active segment that has reached maxSize or
\* maxEntries returns ErrSegmentFull and clears the active flag; size,
\* entryCount and the files are as before.
C14_FullSealsWithoutWriting ==
    [][(/\ CallStep("Segment.Append")
        /\ ReportsFull(Seg(unit'.id))) =>
           /\ unit'.err = "ErrSegmentFull"
           /\ segs' = [segs EXCEPT ![sm.segments[unit'.id]].isActive = FALSE]
           /\ fs' = fs]_vars

\* Segment.Append has returned ErrSegmentFull and the segment is sealed
C14_Witness ==
    /\ unit.op = "Segment.Append" /\ unit.err = "ErrSegmentFull"
    /\ ~Seg(unit.id).isActive /\ ~Seg(unit.id).isClosed
    /\ Seg(unit.id).size = Len(fs[sm.segments[unit.id]])
    /\ Seg(unit.id).entryCount > 0

RECURSIVE SumSizes(_)
SumSizes(records) ==
    IF records = <<>> THEN 0 ELSE EntrySize(Head(records)) + SumSizes(Tail(records))

\* C15: a successful Segment.Append returns the size the segment had before
\* the write and then adds the record's encoded length to size and one to
\* entryCount; so the offset returned for a record is the sum of the encoded
\* lengths of the records appended to the segment before it, the record lies
\* at that offset, and offsets grow strictly from one append to the next.
C15_OffsetIsSizeBefore ==
    /\ [][(CallStep("Segment.Append") /\ unit'.err = "nil") =>
             /\ unit'.offset = Seg(unit'.id).size
             /\ segs' = [segs EXCEPT
                           ![sm.segments[unit'.id]].size = @ + Len(Serialize(unit'.entry)),
                           ![sm.segments[unit'.id]].entryCount = @ + 1]
             /\ fs' = [fs EXCEPT ![sm.segments[unit'.id]] = @ \o Serialize(unit'.entry)]
             /\ (unit.op = "Segment.Append" /\ unit.err = "nil" /\ unit.id = unit'.id) =>
                    unit'.offset = unit.offset + Len(Serialize(unit.entry))]_vars
    /\ []((unit.op = "Segment.Append" /\ unit.err = "nil") =>
             /\ unit.offset + EntrySize(unit.entry) = Seg(unit.id).size
             /\ unit.offset = SumSizes(SubSeq(RecordsFrom(fs[sm.segments[unit.id]], 0), 1,
                                              Seg(unit.id).entryCount - 1))
             /\ RecordsFrom(fs[sm.segments[unit.id]], unit.offset) = <<unit.entry>>)

\* a second record has been appended to a segment, behind the first
C15_Witness ==
    /\ unit.op = "Segment.Append" /\ unit.err = "nil" /\ unit.offset > 0
    /\ Seg(unit.id).entryCount = 2

\* C16: Segment.Append on a segment that is closed or not active (closed by
\* Close, opened read-only by OpenSegment, or sealed by an earlier
\* ErrSegmentFull) returns ErrSegmentClosed and writes nothing; Close on a
\* closed segment returns nil and changes nothing.
C16_ClosedSegmentRejectsAppend ==
    [][/\ (/\ CallStep("Segment.Append")
           /\ (Seg(unit'.id).isClosed \/ ~Seg(unit'.id).isActive)) =>
              /\ unit'.err = "ErrSegmentClosed"
              /\ fs' = fs /\ segs' = segs
       /\ (CallStep("Segment.Close") /\ Seg(unit'.id).isClosed) =>
              /\ unit'.err = "nil"
              /\ fs' = fs /\ segs' = segs]_vars

\* Append after Close has returned ErrSegmentClosed
C16_Witness ==
    /\ unit.op = "Segment.Append" /\ unit.err = "ErrSegmentClosed"
    /\ Seg(unit.id).isClosed

\* C17: Segment.Read at an offset at or beyond the segment's size returns an
\* error, reached directly or through SegmentManager.Read, and
\* SegmentManager.Read of a segment id the manager does not hold returns
\* "segment not found".
C17_ReadOutOfRangeFails ==
    /\ (unit.op \in {"Segment.Read", "SegmentManager.Read"}
        /\ unit.id \in DOMAIN sm.segments /\ unit.pos >= Seg(unit.id).size) =>
           unit.err # "nil"
    /\ (unit.op = "SegmentManager.Read" /\ unit.id \notin DOMAIN sm.segments) =>
           unit.err = "segment not found"

\* SegmentManager.Read of an absent segment id has returned its error, the
\* manager holding other segments with records
C17_Witness ==
    /\ unit.op = "SegmentManager.Read" /\ unit.id \notin DOMAIN sm.segments
    /\ unit.err = "segment not found"
    /\ \E id \in DOMAIN sm.segments : Seg(id).size > 0

\* the sizes of the entry's header are the lengths of its key and its value
WellFormed(e) == e.KeySize = Len(e.Key) /\ e.ValueSize = Len(e.Value)

\* C18: codec round trip.  For every well-formed entry, tombstones included,
\* Serialize gives 12 + KeySize + ValueSize bytes and DeserializeEntry of
\* them succeeds with the same Timestamp, KeySize, ValueSize, Key and Value
\* (no Value when ValueSize is 0).
C18_CodecRoundTrip ==
    /\ (unit.op = "Serialize" /\ WellFormed(unit.entry)) =>
           Len(unit.data) = HeaderSize + unit.entry.KeySize + unit.entry.ValueSize
    /\ (unit.op = "DeserializeEntry" /\ unit.n = 2 /\ WellFormed(unit.entry)) =>
           /\ unit.err = "nil"
           /\ unit.out.Timestamp = unit.entry.Timestamp
           /\ unit.out.KeySize = unit.entry.KeySize
           /\ unit.out.ValueSize = unit.entry.ValueSize
           /\ unit.out.Key = unit.entry.Key
           /\ unit.out.Value = unit.entry.Value
           /\ (unit.entry.ValueSize = 0 => unit.out.Value = <<>>)
           /\ Len(unit.data) = HeaderSize + unit.entry.KeySize + unit.entry.ValueSize

\* an entry with a key and a value of two bytes and a timestamp of more than
\* one byte has gone through Serialize and DeserializeEntry
C18_Witness ==
    /\ unit.op = "DeserializeEntry" /\ unit.n = 2 /\ WellFormed(unit.entry)
    /\ unit.err = "nil"
    /\ unit.out.Timestamp = 258 /\ unit.out.Key = <<1, 255>> /\ unit.out.Value = <<255, 0>>

\* C19: DeserializeEntry returns ErrInvalidEntry for every buffer of fewer
\* than 12 bytes and for every buffer whose length less 12 is not the sum of
\* the KeySize and the ValueSize of its header.
C19_DecodeRejectsBadLength ==
    (unit.op = "DeserializeEntry") =>
        IF Len(unit.data) < HeaderSize THEN unit.err = "ErrInvalidEntry"
        ELSE (Len(unit.data) - HeaderSize # U32(unit.data, 5) + U32(unit.data, 9)) =>
                 unit.err = "ErrInvalidEntry"

\* a buffer with a whole header and one byte too many has been rejected
C19_Witness ==
    /\ unit.op = "DeserializeEntry" /\ unit.n = 1
    /\ Len(unit.data) >= HeaderSize
    /\ Len(unit.data) = HeaderSize + U32(unit.data, 5) + U32(unit.data, 9) + 1
    /\ unit.err = "ErrInvalidEntry"

\* client c's call Delete(k) returns in this step
DeleteReturns(c, k) ==
    /\ cl'[c] # cl[c] /\ cl'[c].pc = "idle"
    /\ cl'[c].ret.op = "Delete" /\ cl'[c].ret.key = k

\* C20: Delete(k) of a key that is not in the keydir returns ErrKeyNotFound,
\* appends no record to any segment and leaves the keydir as it is.
C20_DeleteOfAbsentKey ==
    [][\A c \in Clients, k \in Keys :
          (DeleteReturns(c, k) /\ k \notin DOMAIN ht) =>
              /\ cl'[c].ret.err = "ErrKeyNotFound"
              /\ fs' = fs /\ segs' = segs /\ sm' = sm /\ baseDir' = baseDir
              /\ ht' = ht]_vars

\* Delete of a key that was never set has returned ErrKeyNotFound on a store
\* that holds another key
C20_Witness ==
    \E k \in Keys :
        /\ cl[1].ret = [op |-> "Delete", key |-> k, err |-> "ErrKeyNotFound", val |-> <<>>,
                        keys |-> {}]
        /\ expect[k] = NotFound
        /\ k \notin DOMAIN ht /\ ht # EmptyMap

\* the highest segment id of the base directory, 0 when it holds none
TopID == IF DOMAIN baseDir = {} THEN 0 ELSE MaxOf(DOMAIN baseDir)

\* C21: NewSegmentManager on a directory with the segment files of ids S
\* opens every one of them as an inactive segment on its file and creates a
\* new, empty, active segment with id max(S) + 1 (1 for an empty directory);
\* nextID is activeID + 1 and no segment that was there is the active one.
C21_LoadCreatesFreshActive ==
    [][CallStep("NewSegmentManager") =>
          /\ DOMAIN sm'.segments = DOMAIN baseDir \cup {TopID + 1}
          /\ \A id \in DOMAIN baseDir :
                /\ sm'.segments[id] = baseDir[id]
                /\ ~segs'[baseDir[id]].isActive /\ ~segs'[baseDir[id]].isClosed
                /\ segs'[baseDir[id]].size = Len(fs[baseDir[id]])
                /\ fs'[baseDir[id]] = fs[baseDir[id]]
          /\ sm'.activeID = TopID + 1
          /\ sm'.nextID = sm'.activeID + 1
          /\ sm'.segments[TopID + 1] \notin RangeOf(baseDir)
          /\ segs'[sm'.segments[TopID + 1]].isActive
          /\ ~segs'[sm'.segments[TopID + 1]].isClosed
          /\ fs'[sm'.segments[TopID + 1]] = <<>>
          /\ baseDir' = With(baseDir, TopID + 1, sm'.segments[TopID + 1])]_vars

\* a manager has been constructed on a directory that held segments 1 and 3,
\* segment 3 with a record
C21_Witness ==
    /\ unit.op = "NewSegmentManager" /\ unit.n = 1
    /\ DOMAIN sm.segments = {1, 3, 4}
    /\ sm.activeID = 4 /\ sm.nextID = 5
    /\ Seg(3).size > 0 /\ ~Seg(3).isActive

\* the keys the Set/Delete calls made so far leave with a value
LiveKeys == {k \in Keys : expect[k].found}

RECURSIVE SumValueLen(_)
SumValueLen(ks) ==
    IF ks = {} THEN 0
    ELSE LET k == CHOOSE x \in ks : TRUE
         IN Len(expect[k].val) + SumValueLen(ks \ {k})

\* C22: after any Set, Delete and Merge calls Stats reports the number of live
\* keys as TotalKeys and the sum of the byte lengths of their current values
\* as TotalSize; a compaction changes neither.  Stated for the runs in which
\* no key was last set to the empty value and no Get overlapped a read of the
\* compaction.
C22_StatsCountLiveValues ==
    (hist.up /\ ~hist.closed /\ hist.gets = 0 /\ \A k \in Keys : NotEmptied(k)) =>
        /\ StoreStats.TotalKeys = Cardinality(LiveKeys)
        /\ StoreStats.TotalSize = SumValueLen(LiveKeys)

\* the last call on k was a Set of the empty value
Emptied(k) == expect[k].found /\ expect[k].val = <<>>

\* C23: a Set(k, "") behaves as a delete on the next replay: after Close and
\* a re-open that succeeds, Get(k) returns KeyNotFound and List() does not
\* hold k, whatever value k had before.  Stated for the re-openings at which
\* every Merge had returned before Close.
C23_EmptySetDeletesOnReplay ==
    [][(RestartStep /\ hist.quiet /\ Quiescent /\ hist'.up) =>
          \A k \in Keys : Emptied(k) =>
              /\ StoreGet(k)' = [err |-> "ErrKeyNotFound", val |-> <<>>]
              /\ k \notin StoreList']_vars

\* the errors the copy phase of Store.Merge returns
CopyErrors == {"compaction failed", "failed to append entry"}

\* Merge caller i leaves the copy phase by returning
CopyFails(i) == mg[i].pc \in {"seek", "hdr", "body"} /\ mg'[i].pc = "idle"

\* Merge caller i takes a step before its commit
CopyStep(i) ==
    /\ mg[i].pc \in {"guard", "targets", "snap", "seg", "seek", "hdr", "body"}
    /\ [mg'[i] EXCEPT !.dirty = mg[i].dirty, !.alone = mg[i].alone] # mg[i]

\* the primary manager's segment set, the files of the base directory and
\* the live keydir are left as they are
NothingCommitted ==
    /\ sm' = sm
    /\ ht' = ht
    /\ baseDir' = baseDir
    /\ \A id \in DOMAIN baseDir : fs'[baseDir[id]] = fs[baseDir[id]]
    /\ \A id \in DOMAIN sm.segments : segs'[sm.segments[id]] = segs[sm.segments[id]]

Degraded == hist.up /\ sm = NilSM

\* client c's call returns in this step
Returns(c, op) == cl'[c] # cl[c] /\ cl'[c].pc = "idle" /\ cl'[c].ret.op = op

\* C25: a store whose segment manager failed to initialise is degraded but
\* usable: Set and Delete return an error and change nothing, Get returns
\* KeyNotFound for every key, Stats reports 0 segments, and Close succeeds.
C25_DegradedStore ==
    /\ [](Degraded =>
            /\ StoreStats.Segments = 0
            /\ \A k \in Keys : StoreGet(k) = [err |-> "ErrKeyNotFound", val |-> <<>>])
    /\ [][Degraded =>
            \A c \in Clients :
               /\ Returns(c, "Set") \/ Returns(c, "Delete") =>
                     /\ cl'[c].ret.err = "store not properly initialized"
                     /\ UNCHANGED <<fs, segs, baseDir, tmpDir, sm, ht>>
               /\ Returns(c, "Get") => cl'[c].ret.err = "ErrKeyNotFound"
               /\ Returns(c, "Close") => cl'[c].ret.err = "nil"]_vars

\* a Set on a degraded store has returned its error, with the segment files
\* of the earlier run still in the directory
C25_Witness ==
    /\ Degraded
    /\ cl[1].ret.op = "Set" /\ cl[1].ret.err = "store not properly initialized"
    /\ \E id \in DOMAIN baseDir : fs[baseDir[id]] # <<>>

\* the manager has been closed and not been built again
ManagerClosed == sm # NilSM /\ sm.segments = EmptyMap /\ sm.activeID = 0

\* C26: SegmentManager.Close closes every segment the manager held, empties
\* the segments map and sets activeID to 0; every Read after it returns
\* segment-not-found and every Append after it returns the no-active-segment
\* error without creating a segment.
C26_ClosedManager ==
    /\ [][CallStep("SegmentManager.Close") =>
             /\ ManagerClosed'
             /\ \A id \in DOMAIN sm.segments :
                   /\ segs'[sm.segments[id]].isClosed
                   /\ ~segs'[sm.segments[id]].isActive]_vars
    /\ [][(ManagerClosed /\ CallStep("SegmentManager.Read")) =>
             unit'.err = "segment not found"]_vars
    /\ [][(ManagerClosed /\ CallStep("SegmentManager.Append")) =>
             /\ unit'.err = "no active segment"
             /\ UNCHANGED <<fs, baseDir, sm>>
             /\ DOMAIN segs' \subseteq DOMAIN segs]_vars

\* an Append on a manager that was closed after it had written a segment
\* has returned the no-active-segment error
C26_Witness ==
    /\ ManagerClosed
    /\ unit.op = "SegmentManager.Append" /\ unit.err = "no active segment"
    /\ \E id \in DOMAIN baseDir : fs[baseDir[id]] # <<>>

\* the entries a and b hold the same field values
SameFields(a, b) == [a EXCEPT !.ptr = 0] = [b EXCEPT !.ptr = 0]

\* key k of the merged table is one HashTable.Merge has to install: the live
\* table holds the very entry object the snapshot holds for k
Installable(k) ==
    /\ k \in DOMAIN mg[1].mht /\ k \in DOMAIN mg[1].snap /\ k \in DOMAIN ht
    /\ ht[k].ptr = mg[1].snap[k].ptr

\* C27: HashTable.Merge(src, snap) changes the live table only as follows:
\* for each key k in src that is in snap and in the live table with the
\* identical entry object snap holds, the live entry becomes src[k]; every
\* other key's entry is unchanged, no key absent from the live table is
\* added, and no key is removed.
C27_MergeFrame ==
    [][CallStep("HashTable.Merge") =>
          /\ DOMAIN ht' = DOMAIN ht
          /\ \A k \in DOMAIN ht :
                /\ Installable(k) => ht'[k] = mg[1].mht[k]
                /\ ~Installable(k) => ht'[k] = ht[k]]_vars

\* a Merge has passed over a key that src and snap hold and that was put
\* again after the Clone with the field values it had before
C27_Witness ==
    /\ unit.op = "HashTable.Merge"
    /\ \E k \in DOMAIN ht \cap DOMAIN mg[1].mht \cap DOMAIN mg[1].snap :
          /\ ht[k].ptr # mg[1].mht[k].ptr
          /\ ht[k].ptr # mg[1].snap[k].ptr
          /\ SameFields(ht[k], mg[1].snap[k])

HasTargets(i) == mg[i].pc \in {"snap", "seg", "seek", "hdr", "body", "commit"}

\* the segments of the primary manager that were its active segment when
\* caller i computed its target list or became active later: the ids from
\* that active id on (none if the manager was closed and had no active
\* segment then)
ActiveSince(i) == {id \in DOMAIN sm.segments : mg[i].act0 # 0 /\ id >= mg[i].act0}

\* the commit of caller i ends in this step, with or without an error
CommitEnds(i) == mg[i].pc = "commit" /\ mg'[i].pc = "idle" /\ mg'[i].ret # "none"

\* a Set or Delete of the client has appended its record in this step
Appends == hist'.ops = hist.ops + 1

Copying(i) == mg[i].pc \in {"seg", "seek", "hdr", "body", "commit"}

\* Merge caller i, past the guard, returns in this step
MergeExits(i) == PastGuard(i) /\ mg'[i].pc = "idle" /\ mg'[i].ret # "none"

\* Merge caller i is turned away by the guard in this step
MergeRejected(i) ==
    mg[i].pc = "idle" /\ mg'[i].pc = "idle" /\ mg'[i] # mg[i] /\
    mg'[i].ret = "ErrMergeInProgress"

\* C30: isMerging is true exactly while a Merge call is between its guard
\* and its return: every Merge that passed the guard resets it to false on
\* every exit path, a Merge rejected with MergeInProgress does not reset it,
\* and it is never false while some Merge is still in its copy or commit
\* phase.
C30_IsMergingTracksMerge ==
    /\ [][\A i \in Mergers : MergeExits(i) => ~isMerging']_vars
    /\ [][\A i \in Mergers : MergeRejected(i) => isMerging' = isMerging]_vars
    /\ []((\A i \in Mergers : mg[i].pc = "idle") => ~isMerging)
    /\ []((\E i \in Mergers : Copying(i)) => isMerging)

\* the list of targets a Merge that starts now would compute
NextTargets == RangeOf(GetInactiveSegmentIDs(segs, sm))

\* C31: every segment the primary segment manager holds, other than the one
\* activeID designates, is in the target list of the next compaction, so a
\* segment a Merge produced is rewritten and reclaimed by a later pass
\* without a restart.
C31_MergedSegmentsAreTargets ==
    (hist.up /\ ~hist.closed /\ sm # NilSM) =>
        NextTargets = DOMAIN sm.segments \ {sm.activeID}

\* a Merge call is past its guard and has not returned
Compacting == \E i \in Mergers : PastGuard(i)

\* client c's Get returns in this step
GetReturns(c) == cl[c] # cl'[c] /\ cl'[c].pc = "idle" /\ cl'[c].ret.op = "Get"

\* C32: the compaction commit is atomic with respect to readers, and a Get
\* issued at any point during a compaction returns the latest committed
\* value of its key and never a segment-not-found or read error.  Stated for
\* the Gets that return while the first compaction of the store is running,
\* of keys not last set to the empty value.
C32_GetDuringCompaction ==
    [][\A c \in Clients :
          (GetReturns(c) /\ Compacting /\ hist.commits = 0 /\ NotEmptied(cl'[c].ret.key)) =>
              /\ cl'[c].ret.err \in {"nil", "ErrKeyNotFound"}
              /\ [err |-> cl'[c].ret.err, val |-> cl'[c].ret.val] = ExpectedGet(cl'[c].ret.key)]_vars

\* the records of key k in a sequence of records
RecordsOf(k, log) == SelectSeq(log, LAMBDA e : e.Key = k)

\* the keydir entry of k points at a record of k in a segment file of the
\* base directory that the primary manager holds: the newest record of k,
\* as Set appended it or as a Merge copied it
NewestOnDisk(k) ==
    /\ k \in DOMAIN ht
    /\ ht[k].FileID \in DOMAIN baseDir \cap DOMAIN sm.segments
    /\ sm.segments[ht[k].FileID] = baseDir[ht[k].FileID]
    /\ LET rs == RecordsFrom(fs[baseDir[ht[k].FileID]], ht[k].ValuePos)
       IN  rs # <<>> /\ rs[1].Key = k

\* the records of the segment files of the base directory, in ascending
\* order of segment id: the order in which loadFromSegments replays them
RECURSIVE DiskLog(_)
DiskLog(ids) ==
    IF ids = <<>> THEN <<>>
    ELSE RecordsFrom(fs[baseDir[Head(ids)]], 0) \o DiskLog(Tail(ids))

\* what a replay of the base directory in ascending id order ends with for k
LastOnDisk(k) ==
    LET rs == RecordsOf(k, DiskLog(SortedSeq(DOMAIN baseDir)))
    IN  IF rs = <<>> \/ IsTombstone(rs[Len(rs)])
        THEN [err |-> "ErrKeyNotFound", val |-> <<>>]
        ELSE [err |-> "nil", val |-> rs[Len(rs)].Value]

\* C33: segment ids order records by age in every reachable on-disk state,
\* also after compactions: no segment with a higher id than the one holding
\* the newest record of a key holds a record of that key, so a replay of the
\* segments in ascending id order ends with each key's newest record.
C33_IdsOrderRecordsByAge ==
    MergeIdle =>
        \A k \in Keys :
            /\ NewestOnDisk(k) =>
                   \A id \in DOMAIN baseDir :
                       id > ht[k].FileID =>
                           RecordsOf(k, RecordsFrom(fs[baseDir[id]], 0)) = <<>>
            /\ NotEmptied(k) => LastOnDisk(k) = ExpectedGet(k)

(***************************************************************************)
(* The locks.  Every handler is the sequence of Lock, RLock, Unlock and    *)
(* RUnlock calls it makes, in the order of its code (a deferred unlock     *)
(* comes last); branches of the code give several sequences.  A lock is    *)
(* <<kind, owner, id>>: owner 0 is the store, owner i the merge space of   *)
(* the Merge call of thread i.  unit.th holds, for every thread, the calls *)
(* still to make, the locks it holds and whether it is queued as a writer. *)
(***************************************************************************)
MaxLockCalls == 1

StoreMu == <<"store", 0, 0>>

ManagerMu(o) == <<"sm", o, 0>>

SegmentMu(o, id) == <<"seg", o, id>>

KeydirMu(o, id) == <<"keydir", o, id>>

\* the segment a manager appends to and reads; createActiveSegment makes
\* the one after it
LockSegs == {SegmentMu(0, 1)}

NextSegmentMu(s) == <<s[1], s[2], s[3] + 1>>

LockThreads == Clients \cup {3}

Locked(l, body) == <<[a |-> "Lock", l |-> l]>> \o body \o <<[a |-> "Unlock", l |-> l]>>

RLocked(l, body) == <<[a |-> "RLock", l |-> l]>> \o body \o <<[a |-> "RUnlock", l |-> l]>>

\* Segment.Append, Segment.Close
SegmentLocks(s) == Locked(s, <<>>)

\* Segment.Delete (close and unlink the file) and Segment.Flush (fsync):
\* the segment's lock guards its file handle
SegmentDeleteLocks(s) == Locked(s, <<>>)

SegmentFlushLocks(s) == Locked(s, <<>>)

\* Segment.Read, Segment.Size
SegmentReadLocks(s) == RLocked(s, <<>>)

\* HashTable.Put, Delete, Merge
HTWriteLocks(h) == Locked(h, <<>>)

\* HashTable.Get, List, Stats, Clone
HTReadLocks(h) == RLocked(h, <<>>)

\* SegmentManager.Append that resolves the active segment by GetActiveSegment
SMAppendViaGetActiveSegment(m, S) ==
    {Locked(m, RLocked(m, <<>>) \o SegmentLocks(s)) : s \in S}

\* SegmentManager.Append: no active segment; one Segment.Append; or, on
\* ErrSegmentFull, createActiveSegment and a second Segment.Append
SMAppendLocks(m, S) ==
    {Locked(m, <<>>)}
    \cup {Locked(m, SegmentLocks(s)) : s \in S}
    \cup {Locked(m, SegmentLocks(s) \o SegmentLocks(NextSegmentMu(s))) : s \in S}

\* SegmentManager.Read
SMReadLocks(m, S) ==
    {RLocked(m, <<>>)} \cup {RLocked(m, SegmentReadLocks(s)) : s \in S}

\* SegmentManager.Close
SMCloseLocks(m, S) ==
    {Locked(m, <<>>)}
    \cup {Locked(m, SegmentLocks(s) \o SegmentLocks(NextSegmentMu(s))) : s \in S}

\* SegmentManager.GetSegmentIDs, GetInactiveSegmentIDs, GetSegment
SMGetLocks(m) == RLocked(m, <<>>)

\* SegmentManager.DeleteSegment
DeleteSegmentLocks(m, S) ==
    {Locked(m, <<>>)} \cup {Locked(m, SegmentDeleteLocks(s)) : s \in S}

\* SegmentManager.Merge
SMMergeLocks(m) == Locked(m, <<>>)

\* SegmentManager.FlushAll
FlushAllLocks(m, S) == {RLocked(m, SegmentFlushLocks(s)) : s \in S}

\* Store.Get
GetLocks ==
    {RLocked(StoreMu, HTReadLocks(KeydirMu(0, 0)) \o b) :
        b \in {<<>>} \cup SMReadLocks(ManagerMu(0), LockSegs)}

\* Store.Set
SetLocks ==
    {Locked(StoreMu, b) :
        b \in {<<>>} \cup SMAppendLocks(ManagerMu(0), LockSegs)
              \cup {a \o HTWriteLocks(KeydirMu(0, 0)) :
                      a \in SMAppendLocks(ManagerMu(0), LockSegs) \ {Locked(ManagerMu(0), <<>>)}}}

\* Store.Delete
DeleteLocks ==
    {Locked(StoreMu, b) :
        b \in {<<>>, HTReadLocks(KeydirMu(0, 0))}
              \cup {HTReadLocks(KeydirMu(0, 0)) \o a : a \in SMAppendLocks(ManagerMu(0), LockSegs)}
              \cup {HTReadLocks(KeydirMu(0, 0)) \o a \o HTWriteLocks(KeydirMu(0, 0)) :
                      a \in SMAppendLocks(ManagerMu(0), LockSegs) \ {Locked(ManagerMu(0), <<>>)}}}

\* Store.List
ListLocks == {RLocked(StoreMu, HTReadLocks(KeydirMu(0, 0)))}

\* Store.Stats
StatsLocks ==
    {RLocked(StoreMu, HTReadLocks(KeydirMu(0, 0)) \o b) : b \in {<<>>, SMGetLocks(ManagerMu(0))}}

\* Store.Close
CloseLocks == {Locked(StoreMu, b) : b \in {<<>>} \cup SMCloseLocks(ManagerMu(0), LockSegs)}

\* the copy of one target segment by Store.Merge of thread i: GetSegment,
\* seg.Size, and for at most one record seg.Read, snap.Get, mergeSM.Append
\* and mergeHT.Put
CopyLocks(i) ==
    LET Found(s) == SMGetLocks(ManagerMu(0)) \o SegmentReadLocks(s)
        Copied == SMAppendLocks(ManagerMu(i), {SegmentMu(i, 1)}) \ {Locked(ManagerMu(i), <<>>)}
    IN  {SMGetLocks(ManagerMu(0))}
        \cup {Found(s) : s \in LockSegs}
        \cup {Found(s) \o SegmentReadLocks(s) : s \in LockSegs}
        \cup {Found(s) \o SegmentReadLocks(s) \o HTReadLocks(KeydirMu(i, 1)) : s \in LockSegs}
        \cup {Found(s) \o SegmentReadLocks(s) \o HTReadLocks(KeydirMu(i, 1)) \o a
                 \o HTWriteLocks(KeydirMu(i, 0)) : s \in LockSegs, a \in Copied}

\* the commit of Store.Merge: DeleteSegment of the target, the renames,
\* SegmentManager.Merge and HashTable.Merge under the store's write lock
CommitLocks ==
    {Locked(StoreMu, d \o SMMergeLocks(ManagerMu(0)) \o HTWriteLocks(KeydirMu(0, 0))) :
        d \in DeleteSegmentLocks(ManagerMu(0), LockSegs)}

\* Store.Merge of thread i: ErrMergeInProgress; no inactive segment; or
\* Clone, the copy, FlushAll and the commit
MergeLocks(i) ==
    {<<>>, SMGetLocks(ManagerMu(0))}
    \cup {SMGetLocks(ManagerMu(0)) \o HTReadLocks(KeydirMu(0, 0)) \o c \o f \o m :
            c \in CopyLocks(i), f \in FlushAllLocks(ManagerMu(i), {SegmentMu(i, 1)}),
            m \in CommitLocks}

IdleThread == [op |-> "idle", rest |-> {}, held |-> <<>>, waiting |-> FALSE, calls |-> 0]

InitLocks ==
    /\ InitStore
    /\ unit = [op |-> "locks", th |-> [t \in LockThreads |-> IdleThread]]

\* the threads that hold l, and those that hold it as writers
HoldersOf(l) ==
    {u \in LockThreads : \E j \in 1..Len(unit.th[u].held) : unit.th[u].held[j].l = l}

WritersOf(l) ==
    {u \in LockThreads : \E j \in 1..Len(unit.th[u].held) :
        unit.th[u].held[j].l = l /\ unit.th[u].held[j].a = "Lock"}

\* the lock calls thread t may make next: one for every branch its handler
\* can still take
NextCalls(t) == {Head(p) : p \in unit.th[t].rest \ {<<>>}}

\* the branches of thread t that continue with the lock call x, after it
After(t, x) == {Tail(p) : p \in {q \in unit.th[t].rest \ {<<>>} : Head(q) = x}}

\* a writer has called Lock on l and is blocked: new readers wait behind it
WriterQueued(l) ==
    \E u \in LockThreads :
        unit.th[u].waiting /\ \E x \in NextCalls(u) : x.a = "Lock" /\ x.l = l

\* sync.RWMutex: Lock returns when nobody holds the lock; RLock returns
\* when no writer holds it and no writer is queued
CanAcquire(x) ==
    \/ x.a = "Lock" /\ HoldersOf(x.l) = {}
    \/ x.a = "RLock" /\ WritersOf(x.l) = {} /\ ~WriterQueued(x.l)

LocksUnchanged ==
    UNCHANGED <<fs, foff, segs, baseDir, tmpDir, sm, ht, isMerging, mg, cl, clock, expect, hist>>

\* the lock calls of handler op when thread t runs it
LocksOf(op, t) ==
    CASE op = "Get" -> GetLocks
      [] op = "Set" -> SetLocks
      [] op = "Delete" -> DeleteLocks
      [] op = "List" -> ListLocks
      [] op = "Stats" -> StatsLocks
      [] op = "Close" -> CloseLocks
      [] op = "Merge" -> MergeLocks(t)

\* thread t calls handler op; which branch the handler takes is decided as
\* it runs
LockCall(t, op) ==
    /\ unit.op = "locks"
    /\ unit.th[t].op = "idle"
    /\ unit.th[t].calls < MaxLockCalls
    /\ unit' = [unit EXCEPT !.th[t].op = op, !.th[t].rest = LocksOf(op, t),
                            !.th[t].calls = @ + 1]
    /\ LocksUnchanged

\* mu.Lock() or mu.RLock() returns
Acquire(t) ==
    /\ unit.op = "locks"
    /\ \E x \in NextCalls(t) :
           /\ x.a \in {"Lock", "RLock"}
           /\ CanAcquire(x)
           /\ unit' = [unit EXCEPT !.th[t].rest = After(t, x),
                                   !.th[t].held = Append(@, x),
                                   !.th[t].waiting = FALSE]
    /\ LocksUnchanged

\* mu.Lock() or mu.RLock() is called and blocks
Queue(t) ==
    /\ unit.op = "locks"
    /\ ~unit.th[t].waiting
    /\ \E x \in NextCalls(t) :
           /\ x.a \in {"Lock", "RLock"}
           /\ ~CanAcquire(x)
           /\ unit' = [unit EXCEPT !.th[t].rest = {q \in @ \ {<<>>} : Head(q) = x},
                                   !.th[t].waiting = TRUE]
    /\ LocksUnchanged

\* mu.Unlock() or mu.RUnlock()
Release(t) ==
    /\ unit.op = "locks"
    /\ \E x \in NextCalls(t) :
           /\ x.a \in {"Unlock", "RUnlock"}
           /\ LET held == unit.th[t].held
                  last == CHOOSE j \in 1..Len(held) :
                              /\ held[j].l = x.l
                              /\ \A k \in (j + 1)..Len(held) : held[k].l # x.l
              IN  unit' = [unit EXCEPT !.th[t].rest = After(t, x),
                                       !.th[t].held = SubSeq(held, 1, last - 1)
                                                        \o SubSeq(held, last + 1, Len(held))]
    /\ LocksUnchanged

\* the handler returns
LockReturn(t) ==
    /\ unit.op = "locks"
    /\ unit.th[t].op # "idle"
    /\ <<>> \in unit.th[t].rest
    /\ unit' = [unit EXCEPT !.th[t].op = "idle", !.th[t].rest = {}]
    /\ LocksUnchanged

LockStep(t) == Acquire(t) \/ Queue(t) \/ Release(t) \/ LockReturn(t)

NextLocks ==
    \/ \E t \in Clients : LockCall(t, "Get")
    \/ \E t \in Clients : LockCall(t, "Set")
    \/ \E t \in Clients : LockCall(t, "Delete")
    \/ \E t \in Clients : LockCall(t, "List")
    \/ \E t \in Clients : LockCall(t, "Stats")
    \/ \E t \in Clients : LockCall(t, "Close")
    \/ \E t \in LockThreads \ Clients : LockCall(t, "Merge")
    \/ \E t \in LockThreads : Acquire(t)
    \/ \E t \in LockThreads : Queue(t)
    \/ \E t \in LockThreads : Release(t)
    \/ \E t \in LockThreads : LockReturn(t)

SpecLocks == InitLocks /\ [][NextLocks]_vars

\* the scheduler runs every goroutine that can run
FairLocks == SpecLocks /\ \A t \in LockThreads : WF_vars(LockStep(t))

\* store lock, then segment-manager lock, then segment lock; the keydir
\* lock is innermost
LockRank(l) ==
    CASE l[1] = "store" -> 1 [] l[1] = "sm" -> 2 [] l[1] = "seg" -> 3 [] l[1] = "keydir" -> 4

\* the locks thread t may call Lock or RLock on next
Acquiring(t) == {x \in NextCalls(t) : x.a \in {"Lock", "RLock"}}

LockOrder ==
    \A t \in LockThreads : \A x \in Acquiring(t) :
        \A j \in 1..Len(unit.th[t].held) :
            /\ LockRank(unit.th[t].held[j].l) < LockRank(x.l)
            /\ unit.th[t].held[j].l[1] # "keydir"

\* thread t is inside a call and can neither return nor make a lock call
\* that returns
Blocked(t) ==
    /\ unit.th[t].op # "idle"
    /\ <<>> \notin unit.th[t].rest
    /\ \A x \in NextCalls(t) : x.a \in {"Lock", "RLock"} /\ ~CanAcquire(x)

\* some thread is inside a call and no thread can take a step
Deadlocked ==
    /\ \E t \in LockThreads : unit.th[t].op # "idle"
    /\ \A t \in LockThreads : unit.th[t].op # "idle" => Blocked(t)

\* C34: no interleaving of concurrent Get, Set, Delete, List, Stats, Close
\* and Merge calls deadlocks: every lock is acquired while holding only locks
\* that come before it in the order store, segment manager, segment (and no
\* keydir lock), so no call acquires a lock it holds, and every call returns.
C34_NoDeadlock ==
    /\ [](unit.op = "locks" => LockOrder /\ ~Deadlocked)
    /\ \A t \in LockThreads : (unit.th[t].op # "idle") ~> (unit.th[t].op = "idle")

\* a Set is queued for the store lock that a Get holds, while the
\* Merge appends a record in its merge space
C34_Witness ==
    /\ unit.op = "locks"
    /\ \E t \in Clients : unit.th[t].op = "Set" /\ unit.th[t].waiting
    /\ \E t \in Clients : unit.th[t].op = "Get" /\ HoldersOf(StoreMu) = {t}
    /\ HoldersOf(ManagerMu(3)) = {3}

\* client c returns from a Set or a Delete whose segment-manager append failed
AppendFailed(c) ==
    /\ cl[c] # cl'[c]
    /\ cl'[c].pc = "idle"
    /\ cl'[c].ret.op \in {"Set", "Delete"}
    /\ cl'[c].ret.err \in {"failed to append entry", "failed to append tombstone"}

\* C35: when the segment-manager append inside Set or Delete fails (after
\* Close there is no active segment), the call returns an error and the
\* keydir is as before: a failed Set leaves the previous entry of the key, or
\* its absence, and a failed Delete leaves the key present.
C35_FailedAppendKeepsKeydir ==
    [][\A c \in Clients :
          AppendFailed(c) =>
              /\ ht' = ht
              /\ cl'[c].ret.op = "Delete" => cl'[c].ret.key \in DOMAIN ht']_vars

\* after Close, a Set of a key that has an entry has failed in the append
C35_Witness ==
    /\ hist.closed
    /\ cl[1].ret.op = "Set"
    /\ cl[1].ret.err = "failed to append entry"
    /\ cl[1].ret.key \in DOMAIN ht

(***************************************************************************)
(* New on a directory that an earlier run left behind, where a segment     *)
(* file may end in a record that was not written whole.                    *)
(***************************************************************************)
MaxStartupID == 2

\* an empty file, a record, a record followed by five bytes of a header,
\* and a header and key without the value
StartupFiles ==
    LET r == Serialize(SetEntry(<<1>>, <<1>>, 1))
    IN  {<<>>, r, r \o SubSeq(r, 1, 5), SubSeq(r, 1, HeaderSize + 1)}

InitStartup ==
    /\ \E S \in SUBSET (1..MaxStartupID) : \E f \in [S -> StartupFiles] :
          /\ baseDir = [id \in S |-> RankIn(S, id)]
          /\ fs = [i \in 1..Cardinality(S) |-> f[CHOOSE id \in S : RankIn(S, id) = i]]
    /\ segs = EmptyMap
    /\ tmpDir = EmptyMap
    /\ foff = EmptyMap
    /\ sm = NilSM
    /\ ht = EmptyMap
    /\ isMerging = FALSE
    /\ mg = [i \in Mergers |-> IdleMerger]
    /\ cl = [c \in Clients |-> IdleClient]
    /\ clock = 1
    /\ expect = [k \in Keys |-> NotFound]
    /\ hist = [ops |-> 0, merges |-> 0, restarts |-> 0, gets |-> 0, commits |-> 0,
               overtaken |-> FALSE, closed |-> FALSE, quiet |-> FALSE, up |-> FALSE]
    /\ unit = NoCall

\* New: NewSegmentManager, then loadFromSegments; when that fails New
\* returns nil and the error, before the ticker goroutine is started
New ==
    /\ ~hist.up /\ hist.restarts = 0
    /\ LET Loaded(n, r) ==
               /\ Install(n.w, n.m, mg, cl, EmptyMap)
               /\ ht' = IF r.err = "nil" THEN r.index ELSE EmptyMap
               /\ hist' = [hist EXCEPT !.restarts = @ + 1, !.up = (r.err = "nil")]
               /\ unit' = [NoCall EXCEPT !.op = "New", !.n = 1, !.err = r.err]
           Opened(n) == Loaded(n, loadFromSegments(n.w, n.m, GetSegmentIDs(n.m), EmptyMap))
       IN  Opened(NewSegmentManager(World, "base"))
    /\ UNCHANGED <<isMerging, clock, expect>>

NextStartup ==
    \/ New
    \/ \E k \in Keys, v \in Values : Set(1, k, v)
    \/ \E k \in Keys : Delete(1, k)
    \/ MergeCall(1)
    \/ MergeStore(1)
    \/ MergeTargets(1)
    \/ MergeSnapshot(1)
    \/ MergeSegment(1)
    \/ MergeSeek(1, {}, {1}, 0)
    \/ MergeCommit(1)

SpecStartup == InitStartup /\ [][NextStartup]_vars

\* the bytes from pos on are whole records
RECURSIVE WholeRecords(_, _)
WholeRecords(bytes, pos) ==
    \/ pos = Len(bytes)
    \/ /\ Len(bytes) - pos >= HeaderSize
       /\ LET n == HeaderSize + U32(bytes, pos + 5) + U32(bytes, pos + 9)
          IN  Len(bytes) - pos >= n /\ WholeRecords(bytes, pos + n)

\* some segment file of the directory holds bytes that are not a record
Unreadable == \E id \in DOMAIN baseDir : ~WholeRecords(fs[baseDir[id]], 0)

\* C36: startup replay aborts on the first record it cannot read: when a
\* segment holds bytes that do not decode or a short trailing record, New
\* returns the error and no store, so no keydir is exposed and the background
\* compaction is never started.
C36_ReplayAbortsOnUnreadable ==
    /\ [][(hist'.restarts = hist.restarts + 1 /\ Unreadable) =>
            /\ unit'.err # "nil"
            /\ ~hist'.up
            /\ ht' = EmptyMap]_vars
    /\ []((unit.op = "New" /\ unit.err # "nil") =>
            /\ ~hist.up
            /\ ht = EmptyMap
            /\ hist.merges = 0 /\ ~isMerging
            /\ \A i \in Mergers : mg[i].pc = "idle"
            /\ \A c \in Clients : cl[c] = IdleClient)

\* New has failed on a directory whose second segment ends in a short
\* record, after reading the whole record of the first
C36_Witness ==
    /\ unit.op = "New" /\ unit.err # "nil"
    /\ DOMAIN baseDir = {1, 2, 3}
    /\ WholeRecords(fs[baseDir[1]], 0) /\ fs[baseDir[1]] # <<>>
    /\ ~WholeRecords(fs[baseDir[2]], 0)

(***************************************************************************)
(* A writer and the ticker goroutine's compaction when os.OpenFile may     *)
(* fail in NewSegment (no file descriptor or no space left) at the moment  *)
(* Append wants a new active segment.                                      *)
(***************************************************************************)
\* SegmentManager.Append when createActiveSegment returns an error: the
\* full segment has been marked inactive by Segment.Append and stays the
\* one activeID names
SMAppendOpenFails(w, m, entry) ==
    IF m.activeID = 0
    THEN [err |-> "no active segment", id |-> 0, offset |-> 0, w |-> w, m |-> m]
    ELSE IF m.activeID \notin DOMAIN m.segments
    THEN [err |-> "active segment not found", id |-> 0, offset |-> 0, w |-> w, m |-> m]
    ELSE LET Appended(ino, a) ==
                 [err |-> IF a.err = "ErrSegmentFull" THEN "failed to create new segment"
                          ELSE a.err,
                  id |-> IF a.err = "nil" THEN a.segs[ino].id ELSE 0,
                  offset |-> IF a.err = "nil" THEN a.offset ELSE 0,
                  w |-> [w EXCEPT !.fs = a.fs, !.segs = a.segs], m |-> m]
         IN  Appended(m.segments[m.activeID],
                      SegmentAppend(w.fs, w.segs, m.segments[m.activeID], entry))

\* Store.Set whose append finds the active segment full and cannot create
\* the next one
SetOpenFails(c, key, value) ==
    /\ hist.up /\ cl[c].pc = "idle" /\ StoreLockFree
    /\ sm # NilSM
    /\ \E now \in Times :
         LET Appended(r) ==
                 /\ r.err = "failed to create new segment"
                 /\ Install(r.w, r.m, mg,
                            Returned(c, "Set", key, "failed to append entry", <<>>), foff)
         IN  /\ clock' = now
             /\ Appended(SMAppendOpenFails(World, sm, SetEntry(key, value, now)))
    /\ UNCHANGED <<ht, expect, hist, isMerging, unit>>

NextOpenFails ==
    \/ \E k \in Keys, v \in Values : Set(1, k, v)
    \/ \E k \in Keys, v \in Values : SetOpenFails(1, k, v)
    \/ \E k \in Keys : Delete(1, k)
    \/ MergeCall(1)
    \/ MergeStore(1)
    \/ MergeTargets(1)
    \/ MergeSnapshot(1)
    \/ MergeSegment(1)
    \/ MergeSeek(1, {}, {1}, 0)
    \/ MergeCommit(1)

SpecOpenFails == Init /\ [][NextOpenFails]_vars

\* the step keeps the store's segment manager: New and NewSegmentManager
\* construct another one
SameManager ==
    /\ hist'.restarts = hist.restarts
    /\ ~(unit' # unit /\ unit'.op = "NewSegmentManager")

\* nextID is greater than every id of the map, and activeID is 0 or in it
ManagerIdsOK(m) ==
    /\ \A id \in DOMAIN m.segments : id < m.nextID
    /\ m.activeID # 0 => m.activeID \in DOMAIN m.segments

\* C37: within one segment manager nextID only increases and is greater
\* than every segment id the manager holds, so createActiveSegment never
\* takes the id of a segment in the map, and activeID, when it is not 0,
\* names a segment of the map.
C37_NextIdAboveHeldIds ==
    /\ [][SameManager => sm'.nextID >= sm.nextID]_vars
    /\ [](sm # NilSM => ManagerIdsOK(sm))
    /\ [](\A i \in Mergers : ManagerIdsOK(mg[i].msm))
====
